---- MODULE Spec2Model ----
(***************************************************************************)
(* mminions: the orchestrator (orchestrator/manager.py, with its           *)
(* supervision loop, reproducer validation, artifact store and the stop    *)
(* requests of the status server and helper CLI) and the wait loop of the  *)
(* small manager (mminions/manager.py).                                    *)
(*                                                                         *)
(* The manager is one sequential process; `pc` is its position in          *)
(* Manager.run.  Worker sessions live in the terminal multiplexer and end  *)
(* on their own (WorkerExit), with or without an output file written.      *)
(* What a pane shows is an input of the tick that captures it.  Stop       *)
(* requests come from other processes and interleave with every step.      *)
(* The telemetry files (paths.telemetry_dir, which artifacts.py does not   *)
(* define) and the metrics computed from them play no part here.           *)
(* validate_candidate, choose_best_candidate, _worker_count_sequence,      *)
(* _triage_disagreement_high, _ddmin and rank_hypotheses are also explored *)
(* on their own (SpecValidate, SpecChoose, SpecSequence, SpecDisagreement, *)
(* SpecDdmin, SpecRank), as are _wait_for_workers for a wave of two        *)
(* workers with a long timeout (SpecWait) and write_json against a         *)
(* concurrent reader (SpecWriteJson).  SupervisionLoop.tick is applied to  *)
(* every watch (SpecTick) and to one watch round after round (SpecWatch);  *)
(* SpecEscalation runs the wait loop on a silent worker over several       *)
(* timeouts and poll intervals, SpecOutputs follows the output files       *)
(* through the waves, and SpecDdminLive is SpecDdmin with the function's   *)
(* steps taken whenever possible.                                          *)
(*                                                                         *)
(* Time: the code only uses differences of clock readings and the value    *)
(* 0.0 of last_change_epoch as "unset", so `now` counts seconds from one   *)
(* second before the current wait began and is never 0.                    *)
(***************************************************************************)
EXTENDS Integers, Sequences, FiniteSets, TLC

\* ------------------------------------------------------------------ bounds
\* number of times a worker's pane can show new text in one session
MaxPane == 1
\* number of stop requests issued against the run
MaxStops == 1
\* largest repro_validation_runs of the single-worker configurations
MaxRuns == 6

\* ------------------------------------------------------- program constants
\* runs of the re-validation in minimize_candidate
MinimizeRuns == 5
\* lower limit of the stall timeout in Manager.__init__
MinStallSec == 45
\* cap of the line count in score_candidate
SizeCap == 200
\* limit passed to top_hypotheses by Manager.run
TopLimit == 3

Max(a, b) == IF a >= b THEN a ELSE b
Min(a, b) == IF a <= b THEN a ELSE b

REPRO == "REPRO_BUILDER"
TRIAGER == "TRIAGER"
Roles == {REPRO, TRIAGER}

\* ManagerConfig values of the runs explored: two waves of one and two
\* workers with the gate 2 of 2, and one-worker runs with MaxRuns validation
\* runs over every gate.  In the one-worker runs timeout_sec = 135 gives
\* the stall timeout 45 = poll interval, so that a silent worker is nudged,
\* restarted and failed in the polling rounds at 45, 90 and 135 seconds; in
\* the two-wave runs the wave times out in the round after the first.
WaveConfigs ==
    { [min_workers |-> 1, max_workers |-> 2, timeout_sec |-> 60,
       poll_interval_sec |-> 60, repro_validation_runs |-> 2,
       repro_min_matches |-> 2] }

GateConfigs ==
    { [min_workers |-> 1, max_workers |-> 1, timeout_sec |-> 135,
       poll_interval_sec |-> 45, repro_validation_runs |-> MaxRuns,
       repro_min_matches |-> k] : k \in 1..MaxRuns }

Configs == WaveConfigs \cup GateConfigs

WorkerIds == UNION { 1..Max(c.min_workers, c.max_workers) : c \in Configs }

VARIABLES
    prog,              \* which program runs: "orchestrator" or "mminions"
    cfg,               \* ManagerConfig
    in_tmux,           \* the manager runs inside the session codorch-<run>-manager
    pc,                \* position of the manager in Manager.run
    role,              \* role of the current wave
    wave,              \* index of the current wave in the wave size sequence
    idx,               \* worker index of the loop the manager is in
    session,           \* session[w]: the multiplexer has session codorch-<run>-w<w>
    files,             \* files[r][w]: content of the output file of worker w, role r
    watch,             \* watch[w]: WorkerWatchState of the current wait
    sends,             \* sends[w]: nudges sent to w during the current wait
    restarts,          \* restarts[w]: kill+create done for w during the current wait
    worker_sessions,   \* status per worker of the last repro wave ("absent" if none)
    triage_sessions,   \* status per worker of the last triage wave
    active,            \* the list `active` of the current polling round
    now,               \* clock
    start,             \* clock at the beginning of the current wait
    worktrees,         \* worker ids whose worktree directory exists
    sessions_json,     \* sessions.json: manager session named, workers listed
    accepted_candidates, \* candidates validated in the current repro wave
    best,              \* choose_best_candidate of the last wave, or NoCand
    minimized,         \* candidate recorded in selected_candidate.json, or NoCand
    ranked,            \* ranked triage hypotheses of the last triage wave
    decision,          \* the RunDecision being finalized (local of run)
    decision_json,     \* decision.json
    final_md,          \* final.md
    run_done_json,     \* run_done.json
    history,           \* what happened so far (waves of the phase, writes, outcomes)
    stops,             \* stop requests issued
    minimal_repro,     \* minimal_repro.<ext>: whose script it holds, in which version
    tick_calls,        \* tmux commands run for the watch ticked last in this round
    call               \* frame of a function executed on its own, outside a run

run_vars == << prog, cfg, in_tmux, pc, role, wave, idx, session, files, watch,
               sends, restarts, worker_sessions, triage_sessions, active,
               now, start, worktrees, sessions_json, accepted_candidates, best,
               minimized, ranked, decision, decision_json, final_md, run_done_json,
               history, stops, minimal_repro, tick_calls >>

vars == << run_vars, call >>

\* --------------------------------------------------------------- contents
\* an output file that is absent or blank, and one that holds no JSON object
Missing == [kind |-> "missing"]
Garbage == [kind |-> "garbage"]

\* what a REPRO_BUILDER may leave in its output file: fid = the claimed
\* signature contains an expected term, lines = script lines, setup_ok =
\* every setup command exits 0
CandidateOutputs(w) ==
    { [kind |-> "cand", cid |-> w, fid |-> 1, lines |-> 2, setup_ok |-> TRUE],
      [kind |-> "cand", cid |-> w, fid |-> 1, lines |-> 1, setup_ok |-> FALSE] }

\* a hypothesis of worker w, the k-th of its output: a mechanism, a number
\* of valid evidence rows and a confidence in percent
Hypothesis(w, k, mech, nvalid) ==
    [hid |-> 2 * (w - 1) + k, worker |-> w, mech |-> mech, nvalid |-> nvalid, conf |-> 50]

\* what a TRIAGER may leave: one hypothesis, or two of different mechanisms
HypothesisOutputs(w) ==
    { [kind |-> "hyps", hyps |-> {Hypothesis(w, 1, "A", 1)}],
      [kind |-> "hyps", hyps |-> {Hypothesis(w, 1, "B", 3)}],
      [kind |-> "hyps", hyps |-> {Hypothesis(w, 1, "A", 1), Hypothesis(w, 2, "B", 1)}] }

Outputs(r, w) ==
    {Garbage} \cup (IF r = REPRO THEN CandidateOutputs(w) ELSE HypothesisOutputs(w))

NoCand == [cid |-> 0]

\* no script of a candidate
NoScript == [cid |-> 0, script |-> "none"]

\* no function is executed on its own
NoCall == [fn |-> "none"]

FreshWatch ==
    [stalled_once |-> FALSE, restarted_once |-> FALSE, last_digest |-> 0,
     last_change_epoch |-> 0, failed |-> FALSE]

NoDecision ==
    [status |-> "none", selected |-> 0, rationale |-> "none", top |-> << >>, diagnostics |-> {}]

\* ------------------------------------------------------- pure functions
RECURSIVE SortedSeq(_)
SortedSeq(S) ==
    IF S = {} THEN << >>
    ELSE LET m == CHOOSE x \in S : \A y \in S : x <= y
         IN << m >> \o SortedSeq(S \ {m})

\* Manager._worker_count_sequence
WorkerCountSequence(c) ==
    SortedSeq({c.min_workers}
              \cup { s \in {4, 6} : c.min_workers < s /\ s <= c.max_workers }
              \cup {c.max_workers})

\* Manager.__init__: stall timeout of the supervision loop
StallTimeoutSec(c) == Max(MinStallSec, c.timeout_sec \div 3)

\* validate_candidate: the result for a candidate whose oracle matched in
\* m of the runs (m is ignored when a setup command fails); oracle_runs
\* counts the executions of the oracle command
ValidationResult(runs, min_matches, setup_ok, m) ==
    IF ~setup_ok
    THEN [total_runs |-> runs, matches |-> 0, passed |-> FALSE, oracle_runs |-> 0]
    ELSE [total_runs |-> runs, matches |-> m,
          passed |-> m >= Max(1, Min(min_matches, runs)), oracle_runs |-> runs]

\* The numbers of matching runs explored for a validation with this gate:
\* none, all, and the two around the gate
MatchCounts(runs, min_matches) ==
    LET required == Max(1, Min(min_matches, runs))
    IN { m \in {0, required - 1, required, runs} : m >= 0 /\ m <= runs }

\* score_candidate times 4000 * total_runs
ScoreNum(c) ==
    2400 * c.validation.matches
    + 1000 * c.fid * Max(c.validation.total_runs, 1)
    + 3 * Max(c.validation.total_runs, 1) * (SizeCap - Min(Max(1, c.lines), SizeCap))

\* sort key of choose_best_candidate: a comes before b
CandBefore(a, b) ==
    LET sa == ScoreNum(a) * Max(b.validation.total_runs, 1)
        sb == ScoreNum(b) * Max(a.validation.total_runs, 1)
    IN \/ sa > sb
       \/ sa = sb /\ a.lines < b.lines
       \/ sa = sb /\ a.lines = b.lines /\ a.cid <= b.cid

\* choose_best_candidate: the first element of the stable sort of the
\* passed candidates
ChooseBestCandidate(cands) ==
    LET viable == { i \in DOMAIN cands : cands[i].validation.passed }
    IN IF viable = {} THEN NoCand
       ELSE cands[CHOOSE i \in viable :
                     \A j \in viable : /\ CandBefore(cands[i], cands[j])
                                       /\ CandBefore(cands[j], cands[i]) => i <= j]

\* ------------------------------------------------------------------ Init
\* The state after Manager.__init__: initialize_contract has written the
\* skeleton documents and no session or worktree of the run exists.
NoHistory ==
    [waves |-> << >>, preflight |-> "unknown", issue |-> "unknown", env |-> "unknown",
     created |-> {}, any_passed |-> FALSE,
     run_done_writes |-> 0, revalidation |-> "none", prompt |-> NoScript]

SkeletonDecision == [stage |-> "skeleton", status |-> "none", selected |-> 0, diagnostics |-> {}]

InitCommon ==
    /\ worker_sessions =
         [w \in WorkerIds |-> IF prog = "mminions" /\ w \in 1..cfg.workers THEN "running" ELSE "absent"]
    /\ role = REPRO
    /\ wave = 1
    /\ idx = 1
    /\ files = [r \in Roles |-> [w \in WorkerIds |-> Missing]]
    /\ watch = [w \in WorkerIds |-> FreshWatch]
    /\ sends = [w \in WorkerIds |-> 0]
    /\ restarts = [w \in WorkerIds |-> 0]
    /\ triage_sessions = [w \in WorkerIds |-> "absent"]
    /\ active = {}
    /\ now = 1
    /\ start = 1
    /\ worktrees = {}
    /\ sessions_json = [manager |-> FALSE, workers |-> {}]
    /\ accepted_candidates = << >>
    /\ best = NoCand
    /\ minimized = NoCand
    /\ ranked = << >>
    /\ decision = NoDecision
    /\ decision_json = SkeletonDecision
    /\ final_md = [stage |-> "skeleton", status |-> "none"]
    /\ run_done_json = [exists |-> FALSE, status |-> "none"]
    /\ history = NoHistory
    /\ stops = 0
    /\ minimal_repro = NoScript
    /\ tick_calls = << >>

InitOrchestrator ==
    /\ prog = "orchestrator"
    /\ cfg \in Configs
    /\ in_tmux \in BOOLEAN
    /\ pc = "preflight"
    /\ session = [w \in WorkerIds |-> FALSE]
    /\ call = NoCall
    /\ InitCommon

\* ------------------------------------------------- Manager.run: the gates
\* finalize_with_metrics is entered with the decision to emit
StartFinalize(status, rationale, selected, top, diags) ==
    /\ decision' = [status |-> status, selected |-> selected, rationale |-> rationale,
                    top |-> top, diagnostics |-> diags]
    /\ pc' = "finalize_decision"

\* run_preflight: the outcome for what the environment offers
PreflightEnvs ==
    [has_codex : BOOLEAN, has_tmux : BOOLEAN, has_git : BOOLEAN, repo_exists : BOOLEAN,
     git_repo : BOOLEAN, codex_auth : {"ok", "fail", "timeout"}]

RunPreflight(e) ==
    LET binaries == e.has_codex /\ e.has_tmux /\ e.has_git
    IN IF ~e.repo_exists THEN "failed"
       ELSE IF ~e.has_git THEN "raised"
       ELSE IF ~(binaries /\ e.git_repo) THEN "failed"
       ELSE IF e.codex_auth = "timeout" THEN "raised"
       ELSE IF e.codex_auth = "ok" THEN "passed" ELSE "failed"

Preflight ==
    /\ prog = "orchestrator" /\ pc = "preflight"
    /\ \E e \in PreflightEnvs :
         LET res == RunPreflight(e) IN
         /\ history' = [history EXCEPT !.preflight = res]
         /\ IF res = "raised"
            THEN /\ pc' = "crashed"
                 /\ UNCHANGED << decision, decision_json >>
            ELSE /\ decision_json' = [SkeletonDecision EXCEPT !.stage = "preflight"]
                 /\ IF res = "failed"
                    THEN StartFinalize("needs-human", "preflight failed", 0, << >>, {"preflight"})
                    ELSE pc' = "issue" /\ UNCHANGED decision
    /\ UNCHANGED << call, tick_calls, minimal_repro, prog, cfg, in_tmux, role, wave, idx, session, files, watch,
                    sends, restarts, worker_sessions, triage_sessions, active,
                    now, start, worktrees, sessions_json, accepted_candidates, best,
                    minimized, ranked, final_md, run_done_json, stops >>

\* fetch_issue_json + normalize_issue_spec
FetchIssue ==
    /\ prog = "orchestrator" /\ pc = "issue"
    /\ \E res \in {"parse_error", "needs-human", "ok"} :
         /\ history' = [history EXCEPT !.issue = res]
         /\ CASE res = "parse_error" ->
                   StartFinalize("needs-human", "issue parsing failed", 0, << >>, {"issue"})
              [] res = "needs-human" ->
                   StartFinalize("needs-human", "issue lacks strong machine-testable failure signals",
                                 0, << >>, {"issue"})
              [] res = "ok" -> pc' = "validation_env" /\ UNCHANGED decision
    /\ UNCHANGED << call, tick_calls, minimal_repro, prog, cfg, in_tmux, role, wave, idx, session, files, watch,
                    sends, restarts, worker_sessions, triage_sessions, active,
                    now, start, worktrees, sessions_json, accepted_candidates, best,
                    minimized, ranked, decision_json, final_md, run_done_json, stops >>

\* Manager._prepare_validation_env
PrepareValidationEnv ==
    /\ prog = "orchestrator" /\ pc = "validation_env"
    /\ \E res \in {"prepared", "failed", "raised"} :
         /\ history' = [history EXCEPT !.env = res]
         /\ CASE res = "raised" -> pc' = "crashed" /\ UNCHANGED << decision, role, wave, idx >>
              [] res = "failed" ->
                   /\ StartFinalize("needs-human", "validation environment setup failed",
                                    0, << >>, {"env"})
                   /\ UNCHANGED << role, wave, idx >>
              [] res = "prepared" ->
                   /\ pc' = "launch" /\ role' = REPRO /\ wave' = 1 /\ idx' = 1
                   /\ UNCHANGED decision
    /\ UNCHANGED << call, tick_calls, minimal_repro, prog, cfg, in_tmux, session, files, watch,
                    sends, restarts, worker_sessions, triage_sessions, active,
                    now, start, worktrees, sessions_json, accepted_candidates, best,
                    minimized, ranked, decision_json, final_md, run_done_json, stops >>

\* ------------------------------------------------------------- the waves
\* kill_session that leaves the sessions running
KillNothing(ss, names) == ss

\* TmuxSupervisor.kill_session for each of the named sessions
KillSessions(ss, names) == [w \in WorkerIds |-> IF w \in names THEN FALSE ELSE ss[w]]

WaveSizes == WorkerCountSequence(cfg)
Count == IF wave \in DOMAIN WaveSizes THEN WaveSizes[wave] ELSE 0
WaveWorkers == 1..Count

\* the dict of the current phase: worker_sessions or triage_sessions
CurrentSessions == IF role = REPRO THEN worker_sessions ELSE triage_sessions

SetSessions(new) ==
    IF role = REPRO
    THEN worker_sessions' = new /\ UNCHANGED triage_sessions
    ELSE triage_sessions' = new /\ UNCHANGED worker_sessions

\* Manager._launch_workers, one iteration of its loop: worktree, prompt and
\* launcher, session (a session of the same name is killed first)
LaunchWorker ==
    /\ prog = "orchestrator" /\ pc = "launch"
    /\ idx \in WaveWorkers
    /\ worktrees' = worktrees \cup {idx}
    /\ session' = [session EXCEPT ![idx] = TRUE]
    /\ SetSessions([w \in WorkerIds |->
                      IF w = idx THEN "launched"
                      ELSE IF idx = 1 THEN "absent" ELSE CurrentSessions[w]])
    /\ history' = [history EXCEPT
                     !.waves = IF idx = 1 THEN Append(@, [role |-> role, count |-> Count]) ELSE @,
                     !.created = @ \cup {role},
                     !.prompt = IF role = TRIAGER
                                THEN [cid |-> minimized.cid, script |-> minimized.script]
                                ELSE @]
    /\ IF idx < Count
       THEN idx' = idx + 1 /\ pc' = "launch"
       ELSE idx' = 1 /\ pc' = "write_sessions_launched"
    /\ UNCHANGED << call, tick_calls, minimal_repro, prog, cfg, in_tmux, role, wave, files, watch, sends, restarts, active,
                    now, start, sessions_json, accepted_candidates, best, minimized, ranked,
                    decision, decision_json, final_md, run_done_json, stops >>

\* Manager._write_sessions, after the launch and after the wait
WriteSessions ==
    /\ prog = "orchestrator" /\ pc \in {"write_sessions_launched", "write_sessions_waited"}
    /\ sessions_json' = [manager |-> TRUE,
                         workers |-> { w \in WorkerIds : CurrentSessions[w] # "absent" }]
    /\ pc' = IF pc = "write_sessions_launched" THEN "wait_start"
             ELSE IF role = REPRO THEN "validate" ELSE "triage_rank"
    /\ UNCHANGED << call, tick_calls, minimal_repro, prog, cfg, in_tmux, role, wave, idx, session, files, watch,
                    sends, restarts, worker_sessions, triage_sessions, active,
                    now, start, worktrees, accepted_candidates, best, minimized, ranked,
                    decision, decision_json, final_md, run_done_json, history, stops >>

\* Manager._wait_for_workers, before its loop: fresh watches, start time
WaitStart ==
    /\ prog = "orchestrator" /\ pc = "wait_start"
    /\ watch' = [w \in WorkerIds |-> FreshWatch]
    /\ sends' = [w \in WorkerIds |-> 0]
    /\ restarts' = [w \in WorkerIds |-> 0]
    /\ now' = 1 /\ start' = 1
    /\ active' = {} /\ idx' = 1 /\ tick_calls' = << >>
    /\ pc' = "tick"
    /\ UNCHANGED << call, minimal_repro, prog, cfg, in_tmux, role, wave, session, files,
                    worker_sessions, triage_sessions, worktrees, sessions_json,
                    accepted_candidates, best, minimized, ranked,
                    decision, decision_json, final_md, run_done_json, history, stops >>

\* tick without the stalled_once test: every stall is answered by a nudge
TickNudgeAgain(st, alive, digest, t, stall) ==
    LET epoch == IF st.last_change_epoch = 0 THEN t ELSE st.last_change_epoch
        seen == [st EXCEPT !.last_change_epoch = epoch]
    IN IF st.failed THEN [state |-> st, op |-> "none", calls |-> << >>]
       ELSE IF ~alive THEN [state |-> st, op |-> "none", calls |-> << "ls" >>]
       ELSE IF digest # st.last_digest
       THEN [state |-> [st EXCEPT !.last_digest = digest, !.last_change_epoch = t], op |-> "none", calls |-> << "ls", "capture-pane" >>]
       ELSE IF t - epoch < stall THEN [state |-> seen, op |-> "none", calls |-> << "ls", "capture-pane" >>]
       ELSE [state |-> [st EXCEPT !.stalled_once = TRUE, !.last_change_epoch = t], op |-> "send",
             calls |-> << "ls", "capture-pane", "send-keys" >>]

\* tick that marks the watch failed and leaves its session running
TickFailNoKill(st, alive, digest, t, stall) ==
    LET epoch == IF st.last_change_epoch = 0 THEN t ELSE st.last_change_epoch
        seen == [st EXCEPT !.last_change_epoch = epoch]
    IN IF st.failed THEN [state |-> st, op |-> "none", calls |-> << >>]
       ELSE IF ~alive THEN [state |-> st, op |-> "none", calls |-> << "ls" >>]
       ELSE IF digest # st.last_digest
       THEN [state |-> [st EXCEPT !.last_digest = digest, !.last_change_epoch = t], op |-> "none", calls |-> << "ls", "capture-pane" >>]
       ELSE IF t - epoch < stall THEN [state |-> seen, op |-> "none", calls |-> << "ls", "capture-pane" >>]
       ELSE IF ~st.stalled_once
       THEN [state |-> [st EXCEPT !.stalled_once = TRUE, !.last_change_epoch = t], op |-> "send",
             calls |-> << "ls", "capture-pane", "send-keys" >>]
       ELSE IF ~st.restarted_once
       THEN [state |-> [st EXCEPT !.restarted_once = TRUE, !.last_change_epoch = t], op |-> "restart",
             calls |-> << "ls", "capture-pane", "kill-session", "new-session" >>]
       ELSE [state |-> [seen EXCEPT !.failed = TRUE], op |-> "none", calls |-> << "ls", "capture-pane" >>]

\* tick that leaves an unset last_change_epoch unset
TickNoEpochInit(st, alive, digest, t, stall) ==
    IF st.failed THEN [state |-> st, op |-> "none", calls |-> << >>]
    ELSE IF ~alive THEN [state |-> st, op |-> "none", calls |-> << "ls" >>]
    ELSE IF digest # st.last_digest
    THEN [state |-> [st EXCEPT !.last_digest = digest, !.last_change_epoch = t], op |-> "none",
          calls |-> << "ls", "capture-pane" >>]
    ELSE IF t - st.last_change_epoch < stall
    THEN [state |-> st, op |-> "none", calls |-> << "ls", "capture-pane" >>]
    ELSE IF ~st.stalled_once
    THEN [state |-> [st EXCEPT !.stalled_once = TRUE, !.last_change_epoch = t], op |-> "send",
          calls |-> << "ls", "capture-pane", "send-keys" >>]
    ELSE IF ~st.restarted_once
    THEN [state |-> [st EXCEPT !.restarted_once = TRUE, !.last_change_epoch = t], op |-> "restart",
          calls |-> << "ls", "capture-pane", "kill-session", "new-session" >>]
    ELSE [state |-> [st EXCEPT !.failed = TRUE], op |-> "fail",
          calls |-> << "ls", "capture-pane", "kill-session" >>]

\* tick without the test of state.failed at its entry
TickFailedAgain(st, alive, digest, t, stall) ==
    LET epoch == IF st.last_change_epoch = 0 THEN t ELSE st.last_change_epoch
        seen == [st EXCEPT !.last_change_epoch = epoch]
    IN IF ~alive THEN [state |-> st, op |-> "none", calls |-> << "ls" >>]
       ELSE IF digest # st.last_digest
       THEN [state |-> [st EXCEPT !.last_digest = digest, !.last_change_epoch = t], op |-> "none",
             calls |-> << "ls", "capture-pane" >>]
       ELSE IF t - epoch < stall
       THEN [state |-> seen, op |-> "none", calls |-> << "ls", "capture-pane" >>]
       ELSE IF ~st.stalled_once
       THEN [state |-> [st EXCEPT !.stalled_once = TRUE, !.last_change_epoch = t], op |-> "send",
             calls |-> << "ls", "capture-pane", "send-keys" >>]
       ELSE IF ~st.restarted_once
       THEN [state |-> [st EXCEPT !.restarted_once = TRUE, !.last_change_epoch = t], op |-> "restart",
             calls |-> << "ls", "capture-pane", "kill-session", "new-session" >>]
       ELSE [state |-> [seen EXCEPT !.failed = TRUE], op |-> "fail",
             calls |-> << "ls", "capture-pane", "kill-session" >>]

\* SupervisionLoop.tick: the new watch state, the intervention made and the
\* tmux commands run, for
\* a watch st, the session being alive or not, the digest of its pane, the
\* clock t and the stall timeout
Tick(st, alive, digest, t, stall) ==
    LET epoch == IF st.last_change_epoch = 0 THEN t ELSE st.last_change_epoch
        seen == [st EXCEPT !.last_change_epoch = epoch]
    IN IF st.failed THEN [state |-> st, op |-> "none", calls |-> << >>]
       ELSE IF ~alive THEN [state |-> st, op |-> "none", calls |-> << "ls" >>]
       ELSE IF digest # st.last_digest
       THEN [state |-> [st EXCEPT !.last_digest = digest, !.last_change_epoch = t], op |-> "none", calls |-> << "ls", "capture-pane" >>]
       ELSE IF t - epoch < stall THEN [state |-> seen, op |-> "none", calls |-> << "ls", "capture-pane" >>]
       ELSE IF ~st.stalled_once
       THEN [state |-> [st EXCEPT !.stalled_once = TRUE, !.last_change_epoch = t], op |-> "send",
             calls |-> << "ls", "capture-pane", "send-keys" >>]
       ELSE IF ~st.restarted_once
       THEN [state |-> [st EXCEPT !.restarted_once = TRUE, !.last_change_epoch = t], op |-> "restart",
             calls |-> << "ls", "capture-pane", "kill-session", "new-session" >>]
       ELSE [state |-> [seen EXCEPT !.failed = TRUE], op |-> "fail",
             calls |-> << "ls", "capture-pane", "kill-session" >>]

\* TmuxSupervisor.capture_pane under the digest: the pane shows what the
\* last tick saw or the next text (0 is the digest "" of an empty pane, the
\* last_digest of a fresh watch)
PaneDigests(st) ==
    { d \in {st.last_digest, st.last_digest + 1} : d <= MaxPane }

\* Manager._wait_for_workers, one iteration of the loop over the watches:
\* tick, then the status from the watch and from session_exists.  send_text
\* raises CommandError when the session ended after tick saw it exist.
TickWorker ==
    /\ prog = "orchestrator" /\ pc = "tick"
    /\ idx \in WaveWorkers
    /\ \E digest \in PaneDigests(watch[idx]) :
       LET r == Tick(watch[idx], session[idx], digest, now, StallTimeoutSec(cfg))
           killed == IF r.op = "fail" THEN KillSessions(session, {idx}) ELSE session
           alive == killed[idx]
       IN \/ /\ watch' = [watch EXCEPT ![idx] = r.state]
             /\ sends' = [sends EXCEPT ![idx] = IF r.op = "send" THEN @ + 1 ELSE @]
             /\ restarts' = [restarts EXCEPT ![idx] = IF r.op = "restart" THEN @ + 1 ELSE @]
             /\ session' = killed
             /\ IF r.state.failed
                THEN SetSessions([CurrentSessions EXCEPT ![idx] = "failed"]) /\ UNCHANGED active
                ELSE IF alive
                THEN active' = active \cup {idx} /\ UNCHANGED << worker_sessions, triage_sessions >>
                ELSE SetSessions([CurrentSessions EXCEPT ![idx] = "finished"]) /\ UNCHANGED active
             /\ tick_calls' = r.calls \o (IF r.state.failed THEN << >> ELSE << "ls" >>)
             /\ idx' = idx + 1
             /\ pc' = IF idx < Count THEN "tick" ELSE "round_end"
          \/ /\ r.op = "send"
             /\ session' = [session EXCEPT ![idx] = FALSE]
             /\ tick_calls' = r.calls
             /\ pc' = "crashed"
             /\ UNCHANGED << watch, sends, restarts, worker_sessions, triage_sessions,
                             active, idx >>
    /\ UNCHANGED << call, minimal_repro, prog, cfg, in_tmux, role, wave, files, now, start, worktrees,
                    sessions_json, accepted_candidates, best, minimized, ranked,
                    decision, decision_json, final_md, run_done_json, history, stops >>


\* Manager._wait_for_workers, the end of a polling round: return when no
\* session is active, kill and mark the active ones at the wave timeout,
\* sleep otherwise
RoundEnd ==
    /\ prog = "orchestrator" /\ pc = "round_end"
    /\ IF active = {}
       THEN /\ pc' = "write_sessions_waited"
            /\ UNCHANGED << session, worker_sessions, triage_sessions, now >>
       ELSE IF now - start >= cfg.timeout_sec
       THEN /\ session' = KillSessions(session, active)
            /\ SetSessions([w \in WorkerIds |->
                              IF w \in active THEN "timeout" ELSE CurrentSessions[w]])
            /\ pc' = "write_sessions_waited"
            /\ UNCHANGED now
       ELSE /\ now' = now + cfg.poll_interval_sec
            /\ pc' = "tick"
            /\ UNCHANGED << session, worker_sessions, triage_sessions >>
    /\ active' = {} /\ idx' = 1 /\ tick_calls' = << >>
    /\ watch' = IF pc' = "tick" THEN watch ELSE [w \in WorkerIds |-> FreshWatch]
    /\ sends' = IF pc' = "tick" THEN sends ELSE [w \in WorkerIds |-> 0]
    /\ restarts' = IF pc' = "tick" THEN restarts ELSE [w \in WorkerIds |-> 0]
    /\ UNCHANGED << call, minimal_repro, prog, cfg, in_tmux, role, wave, files, start, worktrees,
                    sessions_json, accepted_candidates, best, minimized, ranked,
                    decision, decision_json, final_md, run_done_json, history, stops >>

\* ------------------------------------------------------- the repro phase
\* parse_repro_candidate: what the manager gets from an output file
ParseReproCandidate(content) ==
    IF content.kind = "missing" THEN "none"
    ELSE IF content.kind = "cand" THEN "candidate"
    ELSE "raised"

\* Manager._validate_candidates, one iteration of its loop over the output
\* paths of the wave: parse, validate with the configured runs and gate,
\* rewrite the file with the validation.  An oracle or setup command that
\* exceeds its timeout raises out of run_shell.
ValidateCandidate ==
    /\ prog = "orchestrator" /\ pc = "validate"
    /\ idx \in WaveWorkers
    /\ LET content == files[REPRO][idx]
           parsed == ParseReproCandidate(content)
           previous == IF idx = 1 THEN << >> ELSE accepted_candidates
           next_pc == IF idx < Count THEN "validate" ELSE "choose"
       IN CASE parsed = "none" ->
                 /\ accepted_candidates' = previous
                 /\ pc' = next_pc /\ idx' = idx + 1
                 /\ UNCHANGED << decision_json, history >>
            [] parsed = "raised" ->
                 /\ accepted_candidates' = previous
                 /\ decision_json' = [decision_json EXCEPT !.diagnostics = @ \cup {"parse"}]
                 /\ pc' = next_pc /\ idx' = idx + 1
                 /\ UNCHANGED history
            [] parsed = "candidate" ->
                 \/ \E m \in MatchCounts(cfg.repro_validation_runs, cfg.repro_min_matches) :
                      LET v == ValidationResult(cfg.repro_validation_runs, cfg.repro_min_matches,
                                                content.setup_ok, m)
                          c == [cid |-> content.cid, worker |-> idx, fid |-> content.fid,
                                lines |-> content.lines, script |-> "original", validation |-> v]
                      IN /\ accepted_candidates' = Append(previous, c)
                         /\ history' = [history EXCEPT !.any_passed = @ \/ v.passed]
                         /\ pc' = next_pc /\ idx' = idx + 1
                         /\ UNCHANGED decision_json
                 \/ /\ pc' = "crashed"
                    /\ UNCHANGED << accepted_candidates, idx, decision_json, history >>
    /\ UNCHANGED << call, tick_calls, minimal_repro, prog, cfg, in_tmux, role, wave, session, files, watch,
                    sends, restarts, worker_sessions, triage_sessions, active,
                    now, start, worktrees, sessions_json, best, minimized, ranked,
                    decision, final_md, run_done_json, stops >>

\* the repro wave loop without its break: every wave size is tried
ChooseWaveGrow ==
    /\ prog = "orchestrator" /\ pc = "choose"
    /\ LET b == ChooseBestCandidate(accepted_candidates)
       IN /\ best' = b
          /\ IF wave < Len(WaveSizes)
             THEN pc' = "launch" /\ wave' = wave + 1
             ELSE IF b # NoCand
             THEN pc' = "minimize" /\ UNCHANGED wave
             ELSE pc' = "no_repro" /\ UNCHANGED wave
    /\ idx' = 1
    /\ UNCHANGED << call, tick_calls, minimal_repro, prog, cfg, in_tmux, role, session, files, watch,
                    sends, restarts, worker_sessions, triage_sessions, active,
                    now, start, worktrees, sessions_json, accepted_candidates, minimized,
                    ranked, decision, decision_json, final_md, run_done_json, history, stops >>

\* Manager.run, the end of an iteration of the repro wave loop and the
\* choice after the loop
ChooseWave ==
    /\ prog = "orchestrator" /\ pc = "choose"
    /\ LET b == ChooseBestCandidate(accepted_candidates)
       IN /\ best' = b
          /\ IF b # NoCand
             THEN pc' = "minimize" /\ UNCHANGED wave
             ELSE IF wave < Len(WaveSizes)
             THEN pc' = "launch" /\ wave' = wave + 1
             ELSE pc' = "no_repro" /\ UNCHANGED wave
    /\ idx' = 1
    /\ UNCHANGED << call, tick_calls, minimal_repro, prog, cfg, in_tmux, role, session, files, watch,
                    sends, restarts, worker_sessions, triage_sessions, active,
                    now, start, worktrees, sessions_json, accepted_candidates, minimized,
                    ranked, decision, decision_json, final_md, run_done_json, history, stops >>

\* Manager._cleanup_worktrees
CleanupWorktrees(trees, sessions) == trees \ { w \in WorkerIds : sessions[w] # "absent" }

GateRationale == "no deterministic reproducer met the acceptance gate"

\* Manager.run when no candidate passed: cleanup, needs-human
NoRepro ==
    /\ prog = "orchestrator" /\ pc = "no_repro"
    /\ worktrees' = CleanupWorktrees(worktrees, worker_sessions)
    /\ StartFinalize("needs-human", GateRationale, 0, << >>, {})
    /\ accepted_candidates' = << >>
    /\ files' = [r \in Roles |-> [w \in WorkerIds |-> Missing]]
    /\ UNCHANGED << call, tick_calls, minimal_repro, prog, cfg, in_tmux, role, wave, idx, session, watch,
                    sends, restarts, worker_sessions, triage_sessions, active,
                    now, start, sessions_json, best, minimized,
                    ranked, decision_json, final_md, run_done_json, history, stops >>

\* minimize_candidate: the reduced script, re-validated with MinimizeRuns runs
MinimizeCandidate(candidate, min_matches, lines, setup_ok, m) ==
    [candidate EXCEPT !.script = "minimized", !.lines = lines,
                      !.validation = ValidationResult(MinimizeRuns, min_matches, setup_ok, m)]

\* the reduced candidate is kept whatever its re-validation says
SelectReduced(reduced, original) == reduced

\* Manager.run: the candidate kept after minimization
SelectMinimized(reduced, original) ==
    IF ~reduced.validation.passed THEN original ELSE reduced

\* Manager.run: minimize the best candidate, fall back to it when the
\* reduced script fails re-validation, write selected_candidate.json and
\* enter the triage phase (best, accepted_candidates, the
\* candidate files and the statuses of the repro workers are not read again
\* and are dropped).  The agent call and the validation runs raise
\* when they exceed their timeouts; every validation run of
\* minimize_candidate writes the script it probes to minimal_repro.<ext>.
Minimize ==
    /\ prog = "orchestrator" /\ pc = "minimize"
    /\ \/ \E m \in MatchCounts(MinimizeRuns, cfg.repro_min_matches), ok \in BOOLEAN,
               l \in 1..best.lines :
            LET reduced == MinimizeCandidate(best, cfg.repro_min_matches, l, ok, m)
            IN /\ minimized' = SelectMinimized(reduced, best)
               /\ minimal_repro' = IF ~reduced.validation.passed
                                   THEN [cid |-> best.cid, script |-> best.script]
                                   ELSE [cid |-> reduced.cid, script |-> reduced.script]
               /\ best' = NoCand /\ accepted_candidates' = << >>
               /\ files' = [files EXCEPT ![REPRO] = [w \in WorkerIds |-> Missing]]
               /\ worker_sessions' = [w \in WorkerIds |->
                      IF worker_sessions[w] = "absent" THEN "absent" ELSE "recorded"]
               /\ history' = [history EXCEPT
                                !.waves = << >>,
                                !.revalidation = IF reduced.validation.passed
                                                 THEN "passed" ELSE "failed"]
               /\ pc' = "launch" /\ role' = TRIAGER /\ wave' = 1 /\ idx' = 1
       \/ /\ pc' = "crashed"
          /\ minimal_repro' \in {minimal_repro, [cid |-> best.cid, script |-> "probe"]}
          /\ UNCHANGED << minimized, role, wave, idx, best, accepted_candidates, files,
                          worker_sessions, history >>
    /\ UNCHANGED << call, tick_calls, prog, cfg, in_tmux, session, watch,
                    sends, restarts, triage_sessions, active,
                    now, start, worktrees, sessions_json,
                    ranked, decision, decision_json, final_md, run_done_json, stops >>

\* ------------------------------------------------------ the triage phase
\* rank_hypotheses: the hypotheses with a mechanism and valid evidence,
\* scored (score times 6000 * den, den = number of workers among them)
Filtered(hyps) == { h \in hyps : h.mech # "" /\ h.nvalid > 0 }

Scored(hyps) ==
    LET f == Filtered(hyps)
        den == Max(1, Cardinality({ h.worker : h \in f }))
    IN { [hid |-> h.hid, worker |-> h.worker, mech |-> h.mech, nvalid |-> h.nvalid, conf |-> h.conf, den |-> den,
          score |-> 800 * den * Min(3, h.nvalid)
                    + 1500 * Min(den, Cardinality({ g \in f : g.mech = h.mech }))
                    + 9 * h.conf * den] : h \in f }

\* the sort key with the ids descending
HypBeforeIdDescending(a, b) ==
    \/ a.score > b.score
    \/ a.score = b.score /\ a.conf > b.conf
    \/ a.score = b.score /\ a.conf = b.conf /\ a.hid >= b.hid

\* the key of ranked.sort: -(score), -confidence, hypothesis_id
HypBefore(a, b) ==
    \/ a.score > b.score
    \/ a.score = b.score /\ a.conf > b.conf
    \/ a.score = b.score /\ a.conf = b.conf /\ a.hid <= b.hid

RECURSIVE SortHyps(_)
SortHyps(S) ==
    IF S = {} THEN << >>
    ELSE LET first == CHOOSE h \in S : \A g \in S : HypBefore(h, g)
         IN << first >> \o SortHyps(S \ {first})

RankHypotheses(hyps) == SortHyps(Scored(hyps))

\* top_hypotheses
TopHypotheses(rk, limit) ==
    SubSeq(rk, 1, IF limit >= 0 THEN Min(limit, Len(rk)) ELSE Max(0, Len(rk) + limit))

\* mechanism.strip().lower() for the mechanisms that occur
StripLower(m) ==
    CASE m = "A" -> "a"
      [] m = "B" -> "b"
      [] m = "Path A" -> "path a"
      [] m = "path B" -> "path b"
      [] m = " " -> ""
      [] OTHER -> m

\* _triage_disagreement_high comparing the mechanisms as written
DisagreementRawMechanisms(rk) ==
    /\ rk # << >>
    /\ Cardinality({ rk[i].mech : i \in DOMAIN rk }) > 1
    /\ Len(rk) >= 2
    /\ LET d == rk[1].score - rk[2].score
       IN (IF d >= 0 THEN d ELSE -d) <= 900 * rk[1].den

\* Manager._triage_disagreement_high (0.15 is 900 * den in the unit of the
\* scores)
TriageDisagreementHigh(rk) ==
    /\ rk # << >>
    /\ Cardinality({ StripLower(rk[i].mech) :
                        i \in { j \in DOMAIN rk : StripLower(rk[j].mech) # "" } }) > 1
    /\ Len(rk) >= 2
    /\ LET d == rk[1].score - rk[2].score
       IN (IF d >= 0 THEN d ELSE -d) <= 900 * rk[1].den

\* the triage wave loop growing on high disagreement only: an empty
\* ranked list ends the phase
TriageRankNoGrowOnEmpty ==
    /\ prog = "orchestrator" /\ pc = "triage_rank"
    /\ LET outs == { files[TRIAGER][w] : w \in WaveWorkers }
           rk == RankHypotheses(UNION { o.hyps : o \in { x \in outs : x.kind = "hyps" } })
           high == TriageDisagreementHigh(rk)
       IN IF \E o \in outs : o.kind = "garbage"
          THEN pc' = "crashed" /\ UNCHANGED << ranked, wave >>
          ELSE IF high /\ Count < cfg.max_workers /\ wave < Len(WaveSizes)
          THEN pc' = "launch" /\ wave' = wave + 1 /\ UNCHANGED ranked
          ELSE pc' = "triage_done" /\ ranked' = rk /\ UNCHANGED wave
    /\ idx' = 1
    /\ UNCHANGED << call, tick_calls, minimal_repro, prog, cfg, in_tmux, role, session, files, watch,
                    sends, restarts, worker_sessions, triage_sessions, active,
                    now, start, worktrees, sessions_json, accepted_candidates, best,
                    minimized, decision, decision_json, final_md, run_done_json,
                    history, stops >>

\* Manager.run, an iteration of the triage wave loop after the wait: parse
\* every output (an unparsable one raises), rank, stop or grow
TriageRank ==
    /\ prog = "orchestrator" /\ pc = "triage_rank"
    /\ LET outs == { files[TRIAGER][w] : w \in WaveWorkers }
           rk == RankHypotheses(UNION { o.hyps : o \in { x \in outs : x.kind = "hyps" } })
           high == TriageDisagreementHigh(rk)
       IN IF \E o \in outs : o.kind = "garbage"
          THEN pc' = "crashed" /\ UNCHANGED << ranked, wave >>
          ELSE IF \/ rk # << >> /\ (~high \/ Count >= cfg.max_workers)
                  \/ rk = << >> /\ Count >= cfg.max_workers
          THEN pc' = "triage_done" /\ ranked' = rk /\ UNCHANGED wave
          ELSE IF wave < Len(WaveSizes)
          THEN pc' = "launch" /\ wave' = wave + 1 /\ UNCHANGED ranked
          ELSE pc' = "triage_done" /\ ranked' = rk /\ UNCHANGED wave
    /\ idx' = 1
    /\ UNCHANGED << call, tick_calls, minimal_repro, prog, cfg, in_tmux, role, session, files, watch,
                    sends, restarts, worker_sessions, triage_sessions, active,
                    now, start, worktrees, sessions_json, accepted_candidates, best,
                    minimized, decision, decision_json, final_md, run_done_json,
                    history, stops >>

\* Manager.run after the triage loop: hypotheses.json, cleanup of the
\* worktrees of both phases, the ok decision
TriageDone ==
    /\ prog = "orchestrator" /\ pc = "triage_done"
    /\ worktrees' = CleanupWorktrees(CleanupWorktrees(worktrees, worker_sessions), triage_sessions)
    /\ LET top == TopHypotheses(ranked, TopLimit)
       IN StartFinalize("ok", "selected highest-scoring deterministic reproducer",
                        minimized.cid, [i \in DOMAIN top |-> top[i].mech], {})
    /\ files' = [r \in Roles |-> [w \in WorkerIds |-> Missing]]
    /\ UNCHANGED << call, tick_calls, minimal_repro, prog, cfg, in_tmux, role, wave, idx, session, watch,
                    sends, restarts, worker_sessions, triage_sessions, active,
                    now, start, sessions_json, accepted_candidates, best, minimized,
                    ranked, decision_json, final_md, run_done_json, history, stops >>

\* ---------------------------------------------------------- finalization
\* Manager._finalize, first write: decision.json
FinalizeDecision ==
    /\ prog = "orchestrator" /\ pc = "finalize_decision"
    /\ decision_json' = [stage |-> "final", status |-> decision.status,
                         selected |-> decision.selected, diagnostics |-> decision.diagnostics]
    /\ pc' = "finalize_final_md"
    /\ UNCHANGED << call, tick_calls, minimal_repro, prog, cfg, in_tmux, role, wave, idx, session, files, watch,
                    sends, restarts, worker_sessions, triage_sessions, active,
                    now, start, worktrees, sessions_json, accepted_candidates, best,
                    minimized, ranked, decision, final_md, run_done_json, history, stops >>

\* Manager._finalize, second write: final.md
FinalizeFinalMd ==
    /\ prog = "orchestrator" /\ pc = "finalize_final_md"
    /\ final_md' = [stage |-> "final", status |-> decision.status]
    /\ pc' = "finalize_run_done"
    /\ UNCHANGED << call, tick_calls, minimal_repro, prog, cfg, in_tmux, role, wave, idx, session, files, watch,
                    sends, restarts, worker_sessions, triage_sessions, active,
                    now, start, worktrees, sessions_json, accepted_candidates, best,
                    minimized, ranked, decision, decision_json, run_done_json,
                    history, stops >>

\* Manager._finalize, third write: run_done.json; run returns
FinalizeRunDone ==
    /\ prog = "orchestrator" /\ pc = "finalize_run_done"
    /\ run_done_json' = [exists |-> TRUE, status |-> decision.status]
    /\ history' = [history EXCEPT !.run_done_writes = @ + 1]
    /\ pc' = "done"
    /\ UNCHANGED << call, tick_calls, minimal_repro, prog, cfg, in_tmux, role, wave, idx, session, files, watch,
                    sends, restarts, worker_sessions, triage_sessions, active,
                    now, start, worktrees, sessions_json, accepted_candidates, best,
                    minimized, ranked, decision, decision_json, final_md, stops >>

\* ---------------------------------------------------------- stop requests
ManagerRunning == pc \notin {"done", "crashed", "killed"}

\* what a stop request does: kill the sessions named in sessions.json (the
\* manager's and the workers'), write run_done.json when it is absent
Stop ==
    /\ stops' = stops + 1
    /\ session' = KillSessions(session, sessions_json.workers)
    /\ pc' = IF sessions_json.manager /\ in_tmux /\ ManagerRunning THEN "killed" ELSE pc
    /\ run_done_json' = IF run_done_json.exists THEN run_done_json
                        ELSE [exists |-> TRUE, status |-> "stopped"]
    /\ history' = [history EXCEPT
                     !.run_done_writes = IF run_done_json.exists THEN @ ELSE @ + 1]
    /\ UNCHANGED << call, tick_calls, minimal_repro, prog, cfg, in_tmux, role, wave, idx, files, watch,
                    sends, restarts, worker_sessions, triage_sessions, active,
                    now, start, worktrees, sessions_json, accepted_candidates, best,
                    minimized, ranked, decision, decision_json, final_md >>

\* server.stop_run
StopRun ==
    /\ prog = "orchestrator" /\ stops < MaxStops
    /\ Stop

\* cli.cmd_stop
CmdStop ==
    /\ prog = "orchestrator" /\ stops < MaxStops
    /\ Stop

\* ------------------------------------------------------------ the workers
\* the launcher script ends, and with it the session; the agent has written
\* its output file (-o of the launcher) or has not
WorkerExit(w) ==
    /\ session[w]
    /\ session' = [session EXCEPT ![w] = FALSE]
    /\ IF prog = "orchestrator"
       THEN \E c \in {files[role][w]} \cup Outputs(role, w) :
               files' = [files EXCEPT ![role][w] = c]
       ELSE UNCHANGED files
    /\ UNCHANGED << call, tick_calls, minimal_repro, prog, cfg, in_tmux, pc, role, wave, idx, watch,
                    sends, restarts, worker_sessions, triage_sessions, active,
                    now, start, worktrees, sessions_json, accepted_candidates, best,
                    minimized, ranked, decision, decision_json, final_md, run_done_json,
                    history, stops >>

\* ------------------------------------------- mminions.manager.wait_for_workers
\* default of the parameter poll
MMPollSec == 5

\* Config values of the small manager: workers and the wave timeout
MMConfigs ==
    { [workers |-> n, timeout_sec |-> t] : n \in 1..2, t \in {0, 5, 10} }

MMWorkers == 1..cfg.workers

\* The state when wait_for_workers is called: the sessions were launched,
\* every status is "running".
InitMminions ==
    /\ prog = "mminions"
    /\ cfg \in MMConfigs
    /\ in_tmux = FALSE
    /\ pc = "mm_loop"
    /\ session = [w \in WorkerIds |-> w \in MMWorkers]
    /\ call = NoCall
    /\ InitCommon

\* wait_for_workers, one iteration of the while loop (or its exit)
MMPoll ==
    /\ prog = "mminions" /\ pc = "mm_loop"
    /\ IF now - start < cfg.timeout_sec
       THEN LET act == { w \in MMWorkers : session[w] }
            IN /\ worker_sessions' = [w \in WorkerIds |->
                     IF w \in MMWorkers /\ w \notin act /\ worker_sessions[w] = "running"
                     THEN "finished" ELSE worker_sessions[w]]
               /\ active' = act
               /\ IF act = {}
                  THEN pc' = "mm_sweep" /\ UNCHANGED now
                  ELSE pc' = "mm_loop" /\ now' = now + MMPollSec
       ELSE pc' = "mm_sweep" /\ UNCHANGED << worker_sessions, active, now >>
    /\ UNCHANGED << call, tick_calls, minimal_repro, prog, cfg, in_tmux, role, wave, idx, session, files, watch,
                    sends, restarts, triage_sessions, start, worktrees, sessions_json,
                    accepted_candidates, best, minimized, ranked, decision, decision_json,
                    final_md, run_done_json, history, stops >>

\* wait_for_workers, the loop after the while: every worker still
\* "running" is marked timeout and its session killed
MMSweep ==
    /\ prog = "mminions" /\ pc = "mm_sweep"
    /\ LET late == { w \in MMWorkers : worker_sessions[w] = "running" }
       IN /\ worker_sessions' = [w \in WorkerIds |->
                IF w \in late THEN "timeout" ELSE worker_sessions[w]]
          /\ session' = KillSessions(session, late)
    /\ pc' = "mm_done"
    /\ UNCHANGED << call, tick_calls, minimal_repro, prog, cfg, in_tmux, role, wave, idx, files, watch,
                    sends, restarts, triage_sessions, active, now, start, worktrees,
                    sessions_json, accepted_candidates, best, minimized, ranked, decision,
                    decision_json, final_md, run_done_json, history, stops >>

\* ------------------------------------------------------- specification
Init == InitOrchestrator \/ InitMminions

Next ==
    \/ Preflight
    \/ FetchIssue
    \/ PrepareValidationEnv
    \/ LaunchWorker
    \/ WriteSessions
    \/ WaitStart
    \/ TickWorker
    \/ RoundEnd
    \/ ValidateCandidate
    \/ ChooseWave
    \/ NoRepro
    \/ Minimize
    \/ TriageRank
    \/ TriageDone
    \/ FinalizeDecision
    \/ FinalizeFinalMd
    \/ FinalizeRunDone
    \/ StopRun
    \/ CmdStop
    \/ \E w \in WorkerIds : WorkerExit(w)
    \/ MMPoll
    \/ MMSweep

Spec == Init /\ [][Next]_vars

\* ------------------------------------------- _wait_for_workers on its own
\* A wave of two workers whose timeout (137 s, stall timeout 45 s, polling
\* every 45 s) leaves a round after the one in which a silent worker is
\* failed: the state when Manager.run calls _wait_for_workers for the first
\* repro wave, the gates passed, both sessions created, sessions.json
\* written.
WaitConfig ==
    [min_workers |-> 2, max_workers |-> 2, timeout_sec |-> 137,
     poll_interval_sec |-> 45, repro_validation_runs |-> 2, repro_min_matches |-> 2]

InitWait ==
    /\ prog = "orchestrator"
    /\ cfg = WaitConfig
    /\ in_tmux \in BOOLEAN
    /\ pc = "wait_start"
    /\ role = REPRO /\ wave = 1 /\ idx = 1
    /\ session = [w \in WorkerIds |-> w \in 1..2]
    /\ worker_sessions = [w \in WorkerIds |-> IF w \in 1..2 THEN "launched" ELSE "absent"]
    /\ triage_sessions = [w \in WorkerIds |-> "absent"]
    /\ worktrees = 1..2
    /\ sessions_json = [manager |-> TRUE, workers |-> 1..2]
    /\ files = [r \in Roles |-> [w \in WorkerIds |-> Missing]]
    /\ watch = [w \in WorkerIds |-> FreshWatch]
    /\ sends = [w \in WorkerIds |-> 0]
    /\ restarts = [w \in WorkerIds |-> 0]
    /\ active = {} /\ now = 1 /\ start = 1
    /\ accepted_candidates = << >> /\ best = NoCand /\ minimized = NoCand
    /\ ranked = << >>
    /\ decision = NoDecision
    /\ decision_json = [SkeletonDecision EXCEPT !.stage = "preflight"]
    /\ final_md = [stage |-> "skeleton", status |-> "none"]
    /\ run_done_json = [exists |-> FALSE, status |-> "none"]
    /\ history = [NoHistory EXCEPT !.preflight = "passed", !.issue = "ok", !.env = "prepared",
                                   !.waves = << [role |-> REPRO, count |-> 2] >>,
                                   !.created = {REPRO}]
    /\ stops = 0
    /\ minimal_repro = NoScript
    /\ tick_calls = << >>
    /\ call = NoCall

NextWait ==
    \/ WaitStart
    \/ TickWorker
    \/ RoundEnd
    \/ StopRun
    \/ \E w \in WorkerIds : WorkerExit(w)

SpecWait == InitWait /\ [][NextWait]_vars

\* ------------------------------------------ functions executed on their own
\* The functions below are also explored outside a run of the manager, over
\* all their inputs up to a bound.  The variables of the run are at rest.
NoRun ==
    /\ prog = "function"
    /\ cfg = CHOOSE c \in WaveConfigs : TRUE
    /\ in_tmux = FALSE
    /\ pc = "idle"
    /\ session = [w \in WorkerIds |-> FALSE]
    /\ InitCommon

\* --------------------------------------------------- validate_candidate
\* the setup commands of a candidate
MaxSetup == 2

\* The combined output of an oracle run, as the set of the terms it
\* contains: the claimed signature, an expected exception type, an expected
\* message substring.
OracleOutputs ==
    { {}, {"claimed"}, {"exception_type"}, {"message_substring"},
      {"claimed", "message_substring"} }

\* _signature_matches that looks for the claimed signature only
SignatureClaimedOnly(out) == "claimed" \in out

\* _signature_matches
SignatureMatches(out) ==
    IF "claimed" \in out THEN TRUE
    ELSE IF "exception_type" \in out THEN TRUE
    ELSE "message_substring" \in out

\* a call validate_candidate(candidate, ..., runs, min_matches) about to
\* run the first setup command
InitValidate ==
    /\ NoRun
    /\ \E runs \in 0..MaxRuns, min_matches \in 0..(MaxRuns + 1), setup \in 0..MaxSetup :
          call = [fn |-> "validate_candidate", runs |-> runs, min_matches |-> min_matches,
                  setup |-> setup, setup_done |-> 0, failed_at |-> 0, oracle_runs |-> 0,
                  outputs |-> [o \in OracleOutputs |-> 0], matches |-> 0,
                  pc |-> IF setup = 0 THEN "oracle" ELSE "setup",
                  result |-> [total_runs |-> 0, matches |-> 0, passed |-> FALSE, oracle_runs |-> 0]]

\* a setup command that exited non-zero is passed over
ValidateSetupGoOn ==
    /\ call.fn = "validate_candidate" /\ call.pc = "setup"
    /\ \E exit \in {"zero", "nonzero", "timeout"} :
          LET n == call.setup_done + 1
          IN call' = IF exit = "timeout"
                     THEN [call EXCEPT !.setup_done = n, !.pc = "raised"]
                     ELSE [call EXCEPT !.setup_done = n,
                                       !.failed_at = IF exit = "nonzero" /\ @ = 0 THEN n ELSE @,
                                       !.pc = IF n = call.setup THEN "oracle" ELSE "setup"]
    /\ UNCHANGED run_vars

\* validate_candidate: one setup command (run_shell raises TimeoutExpired
\* when the command exceeds timeout_sec)
ValidateSetup ==
    /\ call.fn = "validate_candidate" /\ call.pc = "setup"
    /\ \E exit \in {"zero", "nonzero", "timeout"} :
          LET n == call.setup_done + 1
          IN call' = CASE exit = "timeout" ->
                            [call EXCEPT !.setup_done = n, !.pc = "raised"]
                       [] exit = "nonzero" ->
                            [call EXCEPT !.setup_done = n, !.failed_at = n, !.pc = "returned",
                                         !.result = ValidationResult(call.runs, call.min_matches, FALSE, 0)]
                       [] exit = "zero" ->
                            [call EXCEPT !.setup_done = n,
                                         !.pc = IF n = call.setup THEN "oracle" ELSE "setup"]
    /\ UNCHANGED run_vars

\* validate_candidate: one run of the oracle command
ValidateOracleRun ==
    /\ call.fn = "validate_candidate" /\ call.pc = "oracle"
    /\ call.oracle_runs < call.runs
    /\ \/ call' = [call EXCEPT !.oracle_runs = @ + 1, !.pc = "raised"]
       \/ \E out \in OracleOutputs :
             call' = [call EXCEPT !.oracle_runs = @ + 1,
                                  !.outputs[out] = @ + 1,
                                  !.matches = IF SignatureMatches(out) THEN @ + 1 ELSE @]
    /\ UNCHANGED run_vars

\* validate_candidate: the gate after the last run
ValidateReturn ==
    /\ call.fn = "validate_candidate" /\ call.pc = "oracle"
    /\ call.oracle_runs = call.runs
    /\ call' = [call EXCEPT !.pc = "returned",
                            !.result = ValidationResult(call.runs, call.min_matches, TRUE, call.matches)]
    /\ UNCHANGED run_vars

NextValidate == ValidateSetup \/ ValidateOracleRun \/ ValidateReturn

SpecValidate == InitValidate /\ [][NextValidate]_vars

\* ------------------------------------------------ choose_best_candidate
\* the candidates of a list given to choose_best_candidate
MaxCands == 3

\* Validated candidates: scripts at and above the size cap of the score
\* (the only ones whose scores tie while their line counts differ), ids
\* that workers may have given twice, validations of 2 runs.
ChooseCandidates ==
    { [kind |-> "cand", cid |-> c, worker |-> w, fid |-> 1, lines |-> l,
       validation |-> [total_runs |-> 2, matches |-> m, passed |-> p, oracle_runs |-> 2]] :
         c \in 1..2, w \in 1..2, l \in {SizeCap, SizeCap + 1}, m \in 1..2, p \in BOOLEAN }

InitChoose ==
    /\ NoRun
    /\ \E n \in 0..MaxCands : \E cands \in [1..n -> ChooseCandidates] :
          call = [fn |-> "choose_best_candidate", candidates |-> cands,
                  pc |-> "called", result |-> NoCand]

ChooseCall ==
    /\ call.fn = "choose_best_candidate" /\ call.pc = "called"
    /\ call' = [call EXCEPT !.pc = "returned",
                            !.result = ChooseBestCandidate(call.candidates)]
    /\ UNCHANGED run_vars

NextChoose == ChooseCall

SpecChoose == InitChoose /\ [][NextChoose]_vars

\* ----------------------------------------- Manager._worker_count_sequence
\* the worker counts a ManagerConfig may carry: main passes --min-workers
\* and --max-workers on as given
MaxWorkers == 7

InitSequence ==
    /\ NoRun
    /\ \E lo \in 0..MaxWorkers, hi \in 0..MaxWorkers :
          call = [fn |-> "_worker_count_sequence", min_workers |-> lo, max_workers |-> hi,
                  pc |-> "called", result |-> << >>]

SequenceCall ==
    /\ call.fn = "_worker_count_sequence" /\ call.pc = "called"
    /\ call' = [call EXCEPT !.pc = "returned", !.result = WorkerCountSequence(call)]
    /\ UNCHANGED run_vars

NextSequence == SequenceCall

SpecSequence == InitSequence /\ [][NextSequence]_vars

\* ------------------------------------------ Manager._triage_disagreement_high
\* the hypotheses of a ranked list given to _triage_disagreement_high
MaxHyps == 3

\* Ranked hypotheses: mechanisms that differ in case only or for good,
\* scores in units of 1/6000 around the distance 0.15 = 900.
DisagreementHyps ==
    [mech : {"Path A", "path a", "path B"}, score : {0, 1, 900, 901, 1801}, den : {1}]

InitDisagreement ==
    /\ NoRun
    /\ \E n \in 0..MaxHyps : \E rk \in [1..n -> DisagreementHyps] :
          call = [fn |-> "_triage_disagreement_high", ranked |-> rk,
                  pc |-> "called", result |-> FALSE]

DisagreementCall ==
    /\ call.fn = "_triage_disagreement_high" /\ call.pc = "called"
    /\ call' = [call EXCEPT !.pc = "returned", !.result = TriageDisagreementHigh(call.ranked)]
    /\ UNCHANGED run_vars

NextDisagreement == DisagreementCall

SpecDisagreement == InitDisagreement /\ [][NextDisagreement]_vars

\* ------------------------------------------------------------------ _ddmin
\* the lines of a script given to _ddmin
MaxLines == 5

\* The scripts explored: n different lines, and n lines that alternate
\* between two texts.
DdminInputs ==
    UNION { { [i \in 1..n |-> i], [i \in 1..n |-> 1 + (i % 2)] } : n \in 0..MaxLines }

\* The oracles explored.  essential = 0: any oracle; when deterministic, it
\* holds on the input and its answers are fixed as they are given (accepted
\* and rejected record them), when not, every call answers as it likes.
\* essential = e: the oracle that holds iff line e is present.
InitDdmin ==
    /\ NoRun
    /\ \E lines \in DdminInputs, det \in BOOLEAN :
       \E e \in {0} \cup { lines[i] : i \in DOMAIN lines } :
          /\ e # 0 => det
          /\ call = [fn |-> "_ddmin", lines |-> lines, deterministic |-> det, essential |-> e,
                     pc |-> "entry", n |-> 2, current |-> lines, i |-> 0,
                     accepted |-> IF det /\ lines # << >> THEN {lines} ELSE {},
                     rejected |-> {}, oracle_calls |-> 0, result |-> << >>]

\* the trial with the lines of the chunk before it and those after swapped
TrialSwapped(current, n, i) ==
    LET chunk_size == Len(current) \div n
        first == i * chunk_size
        last == IF i = n - 1 THEN Len(current) ELSE (i + 1) * chunk_size
    IN SubSeq(current, last + 1, Len(current)) \o SubSeq(current, 1, first)

\* the list without its i-th chunk (i from 0) of n
Trial(current, n, i) ==
    LET chunk_size == Len(current) \div n
        first == i * chunk_size
        last == IF i = n - 1 THEN Len(current) ELSE (i + 1) * chunk_size
    IN SubSeq(current, 1, first) \o SubSeq(current, last + 1, Len(current))

\* the search gives up after any pass without a reduction
NeverRefine(n, len) == TRUE

\* the search goes on after a pass at the finest granularity
NeverExhausted(n, len) == FALSE

\* the finest granularity was tried
Exhausted(n, len) == n >= len

\* what the oracle may answer on a trial
OracleAnswers(trial) ==
    IF call.essential # 0 THEN {\E k \in DOMAIN trial : trial[k] = call.essential}
    ELSE IF ~call.deterministic THEN BOOLEAN
    ELSE IF trial \in call.accepted THEN {TRUE}
    ELSE IF trial \in call.rejected THEN {FALSE}
    ELSE BOOLEAN

\* _ddmin, entry: an empty list is returned as it is
DdminEntry ==
    /\ call.fn = "_ddmin" /\ call.pc = "entry"
    /\ call' = IF call.lines = << >>
               THEN [call EXCEPT !.pc = "returned", !.result = call.lines]
               ELSE [call EXCEPT !.pc = "while", !.n = 2, !.current = call.lines]
    /\ UNCHANGED run_vars

\* _ddmin, the head of the while loop
DdminWhile ==
    /\ call.fn = "_ddmin" /\ call.pc = "while"
    /\ call' = IF Len(call.current) >= 2 /\ Len(call.current) \div call.n # 0
               THEN [call EXCEPT !.pc = "for", !.i = 0]
               ELSE [call EXCEPT !.pc = "returned", !.result = call.current]
    /\ UNCHANGED run_vars

\* _ddmin, one iteration of the for loop over the chunks
DdminTrial ==
    /\ call.fn = "_ddmin" /\ call.pc = "for" /\ call.i < call.n
    /\ LET trial == Trial(call.current, call.n, call.i)
       IN IF trial = << >>
          THEN call' = [call EXCEPT !.i = @ + 1]
          ELSE \E holds \in OracleAnswers(trial) :
                  call' = IF holds
                          THEN [call EXCEPT !.current = trial, !.n = Max(2, call.n - 1),
                                            !.pc = "while", !.oracle_calls = @ + 1,
                                            !.accepted = IF call.deterministic
                                                         THEN @ \cup {trial} ELSE @]
                          ELSE [call EXCEPT !.i = @ + 1, !.oracle_calls = @ + 1,
                                            !.rejected = IF call.deterministic
                                                         THEN @ \cup {trial} ELSE @]
    /\ UNCHANGED run_vars

\* _ddmin, after a for loop that found no reduction
DdminNoReduction ==
    /\ call.fn = "_ddmin" /\ call.pc = "for" /\ call.i = call.n
    /\ call' = IF Exhausted(call.n, Len(call.current))
               THEN [call EXCEPT !.pc = "returned", !.result = call.current]
               ELSE [call EXCEPT !.pc = "while", !.n = Min(Len(call.current), call.n * 2)]
    /\ UNCHANGED run_vars

NextDdmin == DdminEntry \/ DdminWhile \/ DdminTrial \/ DdminNoReduction

SpecDdmin == InitDdmin /\ [][NextDdmin]_vars

\* _ddmin runs on: a step that is possible is taken
SpecDdminLive == InitDdmin /\ [][NextDdmin]_vars /\ WF_vars(NextDdmin)

\* ------------------------------------------------- SupervisionLoop.tick
\* the number of clock readings of a tick
MaxTicks == 5

\* clock readings, spaced by the smallest stall timeout of a Manager
TickTimes == { 1 + k * MinStallSec : k \in 0..(MaxTicks - 1) }

\* The watches a tick can be given: the flags in the order in which tick
\* sets them, a digest seen before, last_change_epoch unset or an earlier
\* clock reading.
TickWatches ==
    { st \in [stalled_once : BOOLEAN, restarted_once : BOOLEAN, failed : BOOLEAN,
              last_digest : 0..MaxPane, last_change_epoch : {0} \cup TickTimes] :
        /\ st.failed => st.restarted_once
        /\ st.restarted_once => st.stalled_once
        /\ st.last_change_epoch = 0 => st = FreshWatch }

InitTick ==
    /\ NoRun
    /\ \E st \in TickWatches, alive \in BOOLEAN, digest \in 0..MaxPane, t \in TickTimes,
          stall \in {MinStallSec, 2 * MinStallSec} :
          /\ t >= st.last_change_epoch
          /\ call = [fn |-> "tick", state |-> st, alive |-> alive, digest |-> digest,
                     now_epoch |-> t, stall_timeout_sec |-> stall, pc |-> "called",
                     result |-> [state |-> st, op |-> "none", calls |-> << >>]]

TickCall ==
    /\ call.fn = "tick" /\ call.pc = "called"
    /\ call' = [call EXCEPT
                  !.pc = "returned",
                  !.result = Tick(call.state, call.alive, call.digest, call.now_epoch,
                                  call.stall_timeout_sec)]
    /\ UNCHANGED run_vars

NextTick == TickCall

SpecTick == InitTick /\ [][NextTick]_vars

\* One watch ticked once per polling round, as _wait_for_workers does with
\* each worker: the pane may change and the session may end between two
\* rounds.  The frame keeps the digest captured by the tick that nudged and
\* by the tick that restarted (-1: not yet).
InitWatch ==
    /\ NoRun
    /\ \E stall \in {MinStallSec, 2 * MinStallSec} :
          call = [fn |-> "watch", state |-> FreshWatch, alive |-> TRUE, digest |-> 0,
                  now_epoch |-> 1, stall_timeout_sec |-> stall, op |-> "none",
                  nudge_digest |-> -1, restart_digest |-> -1]

WatchTick ==
    /\ call.fn = "watch"
    /\ call.now_epoch \in TickTimes
    /\ \E digest \in PaneDigests(call.state),
          alive \in (IF call.alive THEN BOOLEAN ELSE {FALSE}) :
          LET r == Tick(call.state, alive, digest, call.now_epoch, call.stall_timeout_sec)
          IN call' = [call EXCEPT
                        !.state = r.state,
                        !.alive = IF r.op = "fail" THEN FALSE ELSE alive,
                        !.digest = digest,
                        !.op = r.op,
                        !.now_epoch = @ + MinStallSec,
                        !.nudge_digest = IF r.op = "send" THEN digest ELSE @,
                        !.restart_digest = IF r.op = "restart" THEN digest ELSE @]
    /\ UNCHANGED run_vars

NextWatch == WatchTick

SpecWatch == InitWatch /\ [][NextWatch]_vars

\* --------------------------------------- the escalation of a silent worker
\* values of timeout_sec and poll_interval_sec that load_config lets
\* through (max(60, .) and max(1, .)); 300 and 5 are the defaults
EscTimeouts == {60, 135, 300}
EscPolls == {5, 7, 45}

\* _wait_for_workers with one worker whose session stays alive and whose
\* pane never changes: the watch is new, start is taken
InitEscalation ==
    /\ NoRun
    /\ \E t \in EscTimeouts, p \in EscPolls :
          call = [fn |-> "escalation", timeout_sec |-> t, poll_interval_sec |-> p,
                  stall_timeout_sec |-> StallTimeoutSec([timeout_sec |-> t]),
                  state |-> FreshWatch, start |-> 1, now_epoch |-> 1,
                  status |-> "launched", ops |-> << >>]

\* one polling round: the tick, then the tests of watch.failed, of the
\* active list and of the wave timeout, then the sleep
EscRound ==
    /\ call.fn = "escalation" /\ call.status = "launched"
    /\ LET r == Tick(call.state, TRUE, call.state.last_digest, call.now_epoch,
                     call.stall_timeout_sec)
           ops == IF r.op = "none" THEN call.ops ELSE Append(call.ops, r.op)
       IN IF r.state.failed
          THEN call' = [call EXCEPT !.state = r.state, !.ops = ops, !.status = "failed"]
          ELSE IF call.now_epoch - call.start >= call.timeout_sec
          THEN call' = [call EXCEPT !.state = r.state, !.ops = ops, !.status = "timeout"]
          ELSE call' = [call EXCEPT !.state = r.state, !.ops = ops,
                                    !.now_epoch = @ + call.poll_interval_sec]
    /\ UNCHANGED run_vars

NextEscalation == EscRound

SpecEscalation == InitEscalation /\ [][NextEscalation]_vars

\* ------------------------------------------- the output files of the waves
\* The wave loops of Manager.run seen from the output paths wN.json: each
\* file carries the wave of its last write and who wrote it.  The frame
\* keeps, for every output the manager parsed into a candidate or into
\* hypotheses, the wave of the evaluation and the origin of the file.
NoOutput == [kind |-> "missing", wave |-> 0, by |-> "none"]

InitOutputs ==
    /\ NoRun
    /\ \E r \in Roles :
          call = [fn |-> "outputs", role |-> r, sizes |-> WorkerCountSequence(cfg),
                  wave |-> 1, pc |-> "launch", idx |-> 1, alive |-> {}, good |-> FALSE,
                  file |-> [w \in WorkerIds |-> NoOutput], taken |-> {}]

\* _launch_workers: the output path of worker idx is the same in every
\* wave and is left as it is; the sessions are created
OutLaunch ==
    /\ call.fn = "outputs" /\ call.pc = "launch"
    /\ call' = [call EXCEPT !.alive = 1..call.sizes[call.wave], !.pc = "wait", !.good = FALSE]
    /\ UNCHANGED run_vars

\* the launcher of worker w ends: the agent has written its last message to
\* the output path (-o), parsable or not, or has written nothing
OutWorkerEnds(w) ==
    /\ call.fn = "outputs" /\ call.pc = "wait" /\ w \in call.alive
    /\ \E c \in {call.file[w]}
              \cup { [kind |-> k, wave |-> call.wave, by |-> "worker"] : k \in {"output", "garbage"} } :
          call' = [call EXCEPT !.alive = @ \ {w}, !.file[w] = c]
    /\ UNCHANGED run_vars

\* _wait_for_workers returns: no session is left, the ones still alive
\* were killed at the wave timeout or by the escalation
OutWaitReturns ==
    /\ call.fn = "outputs" /\ call.pc = "wait"
    /\ call' = [call EXCEPT !.alive = {}, !.pc = "evaluate", !.idx = 1]
    /\ UNCHANGED run_vars

\* one iteration of the loop over the output paths: _validate_candidates
\* parses, validates and rewrites the file with the validation; the triage
\* loop parses with parse_triage_output, which raises on a file without a
\* JSON object
OutEvaluate ==
    /\ call.fn = "outputs" /\ call.pc = "evaluate"
    /\ LET w == call.idx
           f == call.file[w]
           next_pc == IF w < call.sizes[call.wave] THEN "evaluate" ELSE "choose"
       IN CASE f.kind = "missing" ->
                 call' = [call EXCEPT !.idx = @ + 1, !.pc = next_pc]
            [] f.kind = "garbage" ->
                 IF call.role = REPRO
                 THEN call' = [call EXCEPT !.idx = @ + 1, !.pc = next_pc]
                 ELSE call' = [call EXCEPT !.pc = "crashed"]
            [] f.kind = "output" ->
                 \E passed \in BOOLEAN :
                    call' = [call EXCEPT
                               !.idx = @ + 1, !.pc = next_pc,
                               !.good = @ \/ passed,
                               !.taken = @ \cup {[worker |-> w, wave |-> call.wave,
                                                  written |-> f.wave, by |-> f.by]},
                               !.file[w] = IF call.role = REPRO
                                           THEN [kind |-> "output", wave |-> call.wave,
                                                 by |-> "manager"]
                                           ELSE f]
    /\ UNCHANGED run_vars

\* the end of an iteration of the wave loop: the repro loop breaks when a
\* candidate passed; the triage loop breaks on ranked hypotheses without
\* high disagreement and after the last wave
OutNextWave ==
    /\ call.fn = "outputs" /\ call.pc = "choose"
    /\ LET last == call.wave = Len(call.sizes)
       IN \/ /\ ~last
             /\ ~call.good \/ call.role = TRIAGER
             /\ call' = [call EXCEPT !.wave = @ + 1, !.pc = "launch", !.idx = 1]
          \/ /\ last \/ call.good
             /\ call' = [call EXCEPT !.pc = "done"]
    /\ UNCHANGED run_vars

NextOutputs ==
    \/ OutLaunch
    \/ \E w \in WorkerIds : OutWorkerEnds(w)
    \/ OutWaitReturns
    \/ OutEvaluate
    \/ OutNextWave

SpecOutputs == InitOutputs /\ [][NextOutputs]_vars

\* ------------------------------------------------------- rank_hypotheses
\* the hypotheses of a list given to rank_hypotheses, the evidence rows of
\* a hypothesis, and the limits given to top_hypotheses
MaxRanked == 3
MaxEvidence == 2
MaxTop == 4

\* The repository snapshot: a.py with two lines, the first of which
\* contains the text x; /outside.py is a file of the machine outside the
\* repository, with the same content.
RepoFiles == {"a.py"}
OutsideFiles == {"/outside.py"}

\* the evidence rows a worker may write
EvidenceRows ==
    [file : {"a.py"}, line : {0, 1, 3}, snippet : {"", "x", "y"}]
    \cup [file : {"", "missing.py", "/outside.py"}, line : {1}, snippet : {"x"}]

\* _evidence_valid: repo_path / file is the file itself when file is an
\* absolute path
EvidenceValid(ev) ==
    IF ev.file = "" \/ ev.line <= 0 THEN FALSE
    ELSE IF ev.file \notin RepoFiles \cup OutsideFiles THEN FALSE
    ELSE IF ev.line > 2 THEN FALSE
    ELSE IF ev.snippet # "" /\ ~(ev.snippet = "x" /\ ev.line = 1) THEN FALSE
    ELSE TRUE

\* a row that is valid
GoodRow == [file |-> "a.py", line |-> 1, snippet |-> "x"]

\* Lists of hypotheses with different ids: one hypothesis with every
\* evidence list, and up to MaxRanked hypotheses of two workers that differ
\* in mechanism, confidence and number of valid rows.
RankInputs ==
    { { [hid |-> 1, worker |-> 1, mech |-> m, conf |-> 50, evidence |-> ev] } :
         m \in {"", "A"}, ev \in UNION { [1..n -> EvidenceRows] : n \in 0..MaxEvidence } }
    \cup
    { { [hid |-> i, worker |-> 1 + (i % 2), mech |-> h[i].mech, conf |-> h[i].conf,
         evidence |-> [k \in 1..h[i].n |-> GoodRow]] :
           i \in { k \in 1..MaxRanked : h[k].mech # "absent" } } :
         h \in [1..MaxRanked -> [mech : {"A", "B", "absent"}, conf : {20, 50}, n : {1, 3}]] }

InitRank ==
    /\ NoRun
    /\ \E hyps \in RankInputs :
          call = [fn |-> "rank_hypotheses", hypotheses |-> hyps, pc |-> "called",
                  result |-> << >>, top |-> [k \in 0..MaxTop |-> << >>]]

\* rank_hypotheses: hypotheses without mechanism, without evidence or
\* without valid evidence are dropped, the others keep their valid rows,
\* get their score and are sorted
RankCall ==
    /\ call.fn = "rank_hypotheses" /\ call.pc = "called"
    /\ LET counted == { [hid |-> h.hid, worker |-> h.worker, mech |-> h.mech, conf |-> h.conf,
                         nvalid |-> Len(SelectSeq(h.evidence, EvidenceValid))] :
                           h \in call.hypotheses }
           rk == RankHypotheses(counted)
           Rows(hid) == LET h == CHOOSE x \in call.hypotheses : x.hid = hid
                        IN SelectSeq(h.evidence, EvidenceValid)
       IN call' = [call EXCEPT
                     !.pc = "ranked",
                     !.result = [i \in DOMAIN rk |->
                                   [hid |-> rk[i].hid, mech |-> rk[i].mech, conf |-> rk[i].conf,
                                    score |-> rk[i].score, evidence |-> Rows(rk[i].hid)]]]
    /\ UNCHANGED run_vars

\* top_hypotheses(ranked, k) for every limit k
TopCall ==
    /\ call.fn = "rank_hypotheses" /\ call.pc = "ranked"
    /\ call' = [call EXCEPT !.pc = "returned",
                            !.top = [k \in 0..MaxTop |-> TopHypotheses(call.result, k)]]
    /\ UNCHANGED run_vars

NextRank == RankCall \/ TopCall

SpecRank == InitRank /\ [][NextRank]_vars

\* ------------------------------------------------- ArtifactStore.write_json
\* the blocks in which a document reaches the file (write_text flushes its
\* buffer block by block), and the rewrites of a file
MaxBlocks == 2
MaxWrites == 2

\* the documents a concurrent reader opens
JsonPaths == {"issue.json", "sessions.json", "decision.json"}

\* json.dumps(payload): version v of a document, n blocks long
Document(v, n) == [k \in 1..n |-> [version |-> v, block |-> k]]

Documents == { Document(v, n) : v \in 0..MaxWrites, n \in 1..MaxBlocks }

\* The state after initialize_contract: the file holds its skeleton
\* document, nobody has read it.
InitWriteJson ==
    /\ NoRun
    /\ \E p \in JsonPaths, n \in 1..MaxBlocks :
          call = [fn |-> "write_json", path |-> p, file |-> Document(0, n), version |-> 0,
                  payload |-> << >>, pc |-> "idle",
                  read |-> [done |-> FALSE, text |-> << >>, at |-> "idle"]]

\* path.write_text, open(path, "w"): the file is truncated
WriteJsonOpen ==
    /\ call.fn = "write_json" /\ call.pc = "idle" /\ call.version < MaxWrites
    /\ \E n \in 1..MaxBlocks :
          call' = [call EXCEPT !.payload = Document(call.version + 1, n),
                               !.file = << >>, !.pc = "open"]
    /\ UNCHANGED run_vars

\* path.write_text: the next block of the text reaches the file
WriteJsonFlush ==
    /\ call.fn = "write_json" /\ call.pc = "open"
    /\ Len(call.file) < Len(call.payload)
    /\ call' = [call EXCEPT !.file = Append(@, call.payload[Len(call.file) + 1])]
    /\ UNCHANGED run_vars

\* path.write_text returns
WriteJsonClose ==
    /\ call.fn = "write_json" /\ call.pc = "open"
    /\ call.file = call.payload
    /\ call' = [call EXCEPT !.pc = "idle", !.version = @ + 1]
    /\ UNCHANGED run_vars

\* read_json, read_sessions, _read_json of another process: path.read_text
ReadJson ==
    /\ call.fn = "write_json"
    /\ call' = [call EXCEPT !.read = [done |-> TRUE, text |-> call.file, at |-> call.pc]]
    /\ UNCHANGED run_vars

NextWriteJson == WriteJsonOpen \/ WriteJsonFlush \/ WriteJsonClose \/ ReadJson

SpecWriteJson == InitWriteJson /\ [][NextWriteJson]_vars

\* ----------------------------------------------------------------- claims
\* C1: for every worker watch the nudge is sent at most once, the session is
\* killed and recreated at most once and only after the nudge, and the watch
\* is failed, with its session killed, only after the restart.
C1_InterventionOrder ==
    \A w \in WorkerIds :
        /\ sends[w] <= 1
        /\ restarts[w] <= 1
        /\ restarts[w] = 1 => sends[w] = 1
        /\ watch[w].failed => restarts[w] = 1 /\ sends[w] = 1 /\ ~session[w]

\* a watch that went through the nudge, the restart and the failure
C1_Witness ==
    \E w \in WorkerIds : watch[w].failed /\ sends[w] = 1 /\ restarts[w] = 1

\* C2: at the wave timeout every worker whose session is still running is
\* marked timeout and its session is killed, and when the wait returns no
\* session of a worker marked timeout exists (both wait loops).
C2_AtReturn ==
    /\ pc = "write_sessions_waited" =>
          \A w \in WaveWorkers : CurrentSessions[w] = "timeout" => ~session[w]
    /\ pc = "mm_done" =>
          \A w \in MMWorkers : worker_sessions[w] = "timeout" => ~session[w]

C2_AtTimeout ==
    /\ pc = "round_end" /\ pc' = "write_sessions_waited" =>
          \A w \in WaveWorkers :
              session[w] => CurrentSessions'[w] = "timeout" /\ ~session'[w]
    /\ pc = "mm_sweep" /\ pc' = "mm_done" =>
          \A w \in MMWorkers :
              session[w] => worker_sessions'[w] = "timeout" /\ ~session'[w]

C2_TimeoutKills == []C2_AtReturn /\ [][C2_AtTimeout]_vars

\* the wait of a wave returned at the timeout with a worker marked timeout
\* whose session ran into it
C2_Witness ==
    /\ pc = "write_sessions_waited"
    /\ now - start >= cfg.timeout_sec
    /\ \E w \in WaveWorkers : CurrentSessions[w] = "timeout"

\* C3: when the manager reads the output files of a repro or triage wave, no
\* session of that wave is alive.
C3_NoSessionWhenReading ==
    pc \in {"validate", "triage_rank"} => \A w \in WaveWorkers : ~session[w]

\* the manager reads the outputs of a two-worker triage wave of which one
\* session ended by itself and the other was killed at the wave timeout
C3_Witness ==
    /\ pc = "triage_rank" /\ Count = 2
    /\ \E w \in WaveWorkers : triage_sessions[w] = "timeout"
    /\ \E w \in WaveWorkers : triage_sessions[w] = "finished"

\* C4: a run of the manager that returned had run_done.json written exactly
\* once, after its final decision.json.
C4_RunDoneOnceAfterDecision ==
    pc = "done" => history.run_done_writes = 1 /\ decision_json.stage = "final"

\* C5: whenever run_done.json exists, final.md and decision.json of the run
\* are written and decision.json carries the status of run_done.json, also
\* when a stop request wrote run_done.json.
C5_RunDoneMatchesDecision ==
    run_done_json.exists =>
        /\ final_md.stage = "final"
        /\ decision_json.stage = "final"
        /\ decision_json.status = run_done_json.status

\* C6: when the run of the manager has ended, by returning or by failing,
\* no worktree of a worker is left.
C6_NoWorktreeSurvives ==
    pc \in {"done", "crashed"} => worktrees = {}

\* C7: every candidate validated in a wave, and the minimized candidate
\* recorded in selected_candidate.json, has 0 <= matches <= total_runs, and
\* if it passed then matches >= repro_min_matches.
C7_Gate(c) ==
    /\ c.validation.matches >= 0
    /\ c.validation.matches <= c.validation.total_runs
    /\ c.validation.passed => c.validation.matches >= cfg.repro_min_matches

C7_AcceptedMeetGate ==
    prog = "orchestrator" =>
        /\ \A i \in DOMAIN accepted_candidates : C7_Gate(accepted_candidates[i])
        /\ minimized # NoCand => C7_Gate(minimized)

\* C8: a decision with status ok selects a candidate whose script the
\* orchestrator executed itself and whose recorded validation passed.
C8_OkOnlyWithValidated ==
    /\ decision.status = "ok" =>
          /\ decision.selected # 0
          /\ decision.selected = minimized.cid
          /\ minimized.validation.passed
          /\ minimized.validation.oracle_runs > 0
          /\ minimized.validation.matches >= 1
    /\ decision_json.status = "ok" => decision.status = "ok"

\* decision.json was written with status ok for the original candidate,
\* kept because the reduced script failed its re-validation
C8_Witness ==
    /\ decision_json.status = "ok"
    /\ minimized.script = "original"
    /\ decision_json.selected = minimized.cid

\* the three gates before the first wave
C9_GatesPassed ==
    history.preflight = "passed" /\ history.issue = "ok" /\ history.env = "prepared"

\* C9: no worktree and no worker session is created unless preflight
\* passed, the issue is ok and the validation environment is prepared, and a
\* run that ended at one of these gates was finalized with needs-human.
C9_GatesShortCircuit ==
    prog = "orchestrator" =>
        /\ (worktrees # {} \/ history.created # {} \/ \E w \in WorkerIds : session[w])
              => C9_GatesPassed
        /\ pc \in {"done", "crashed"} /\ ~C9_GatesPassed =>
              decision_json.stage = "final" /\ decision_json.status = "needs-human"

\* C10: a run that ended without a candidate passing validation in any wave
\* tried every wave size once in increasing order, was finalized with
\* needs-human, the gate rationale and no selected candidate, and created
\* no TRIAGER session.
C10_NoReproNeedsHuman ==
    prog = "orchestrator" /\ C9_GatesPassed /\ ~history.any_passed =>
        /\ TRIAGER \notin history.created
        /\ pc \in {"done", "crashed"} =>
              /\ history.waves = [i \in DOMAIN WaveSizes |-> [role |-> REPRO, count |-> WaveSizes[i]]]
              /\ decision_json.stage = "final"
              /\ decision_json.status = "needs-human"
              /\ decision_json.selected = 0
              /\ decision.rationale = GateRationale

\* the runs of a call validate_candidate whose output holds the claimed
\* signature, an expected exception type or an expected message substring
C11_Matching ==
    LET terms == {"claimed", "exception_type", "message_substring"}
        hit == { o \in OracleOutputs : o \cap terms # {} }
        RECURSIVE Sum(_)
        Sum(S) == IF S = {} THEN 0
                  ELSE LET o == CHOOSE x \in S : TRUE
                       IN call.outputs[o] + Sum(S \ {o})
    IN Sum(hit)

\* C11: a call of validate_candidate whose setup commands all succeeded
\* runs the oracle only after them, and never more than `runs` times; when
\* it returns it has run the oracle exactly `runs` times, matches is the
\* number of runs whose output matched, and passed = (matches >= K) for
\* K = min_matches in 1..runs.
C11_ValidateGate ==
    call.fn = "validate_candidate" /\ call.failed_at = 0 =>
        /\ call.oracle_runs <= call.runs
        /\ call.oracle_runs > 0 => call.setup_done = call.setup
        /\ call.pc = "returned" =>
              /\ call.oracle_runs = call.runs
              /\ call.result.oracle_runs = call.runs
              /\ call.result.total_runs = call.runs
              /\ call.result.matches = C11_Matching
              /\ call.min_matches \in 1..call.runs =>
                    (call.result.passed <=> call.result.matches >= call.min_matches)

\* a call with two setup commands returned passed although not every run
\* matched, one of the matching runs by an expected exception type only
C11_Witness ==
    /\ call.fn = "validate_candidate" /\ call.pc = "returned"
    /\ call.setup_done = 2 /\ call.failed_at = 0
    /\ call.min_matches \in 2..call.runs
    /\ call.result.passed /\ call.result.matches < call.runs
    /\ call.outputs[{"exception_type"}] > 0

\* C12: once a setup command of validate_candidate has exited non-zero the
\* call has returned matches = 0 and passed = false, no later setup command
\* was run and the oracle was not run.
C12_SetupFailureReturns ==
    call.fn = "validate_candidate" /\ call.failed_at # 0 =>
        /\ call.pc = "returned"
        /\ call.setup_done = call.failed_at
        /\ call.oracle_runs = 0
        /\ call.result.oracle_runs = 0
        /\ call.result.matches = 0
        /\ ~call.result.passed

\* the first of two setup commands exited non-zero
C12_Witness ==
    /\ call.fn = "validate_candidate" /\ call.pc = "returned"
    /\ call.setup = 2 /\ call.failed_at = 1 /\ call.runs > 0

\* b is a strictly better choice than a: higher score, or the same score
\* and fewer lines, or the same score and lines and a smaller id
C13_Better(b, a) ==
    LET sa == ScoreNum(a) * Max(b.validation.total_runs, 1)
        sb == ScoreNum(b) * Max(a.validation.total_runs, 1)
    IN \/ sb > sa
       \/ sb = sa /\ b.lines < a.lines
       \/ sb = sa /\ b.lines = a.lines /\ b.cid < a.cid

\* the result of choose_best_candidate is the best passed candidate
C13_Optimal ==
    call.fn = "choose_best_candidate" /\ call.pc = "returned" =>
        LET cands == call.candidates
            passed == { i \in DOMAIN cands : cands[i].validation.passed }
        IN /\ call.result = NoCand <=> passed = {}
           /\ passed # {} =>
                 /\ \E i \in passed : call.result = cands[i]
                 /\ \A j \in passed : ~C13_Better(cands[j], call.result)

\* C13: choose_best_candidate returns None iff no candidate passed,
\* otherwise a passed candidate that no other passed candidate beats in
\* score, then fewer lines, then smaller id; and every reordering of the
\* input list gives the same result.
C13_ChooseBest ==
    /\ C13_Optimal
    /\ call.fn = "choose_best_candidate" /\ call.pc = "returned" =>
          LET n == Len(call.candidates)
          IN \A f \in [1..n -> 1..n] :
                (\A i, j \in 1..n : f[i] = f[j] => i = j) =>
                    ChooseBestCandidate([i \in 1..n |-> call.candidates[f[i]]]) = call.result

\* C14: the wave size sequence is the sorted set ({min, 4, 6} intersected
\* with [min, max]) united with {max}: strictly increasing, every size
\* within [min_workers, max_workers], the last one max_workers.
C14_WaveSequence ==
    call.fn = "_worker_count_sequence" /\ call.pc = "returned" =>
        LET lo == call.min_workers
            hi == call.max_workers
            seq == call.result
        IN /\ seq = SortedSeq(({lo, 4, 6} \cap lo..hi) \cup {hi})
           /\ \A i \in 1..(Len(seq) - 1) : seq[i] < seq[i + 1]
           /\ \A i \in DOMAIN seq : lo <= seq[i] /\ seq[i] <= hi
           /\ seq # << >> /\ seq[Len(seq)] = hi

\* the same for min_workers <= max_workers only
C14_WhenOrdered ==
    call.fn = "_worker_count_sequence" /\ call.pc = "returned"
    /\ call.min_workers <= call.max_workers =>
        LET lo == call.min_workers
            hi == call.max_workers
            seq == call.result
        IN /\ seq = SortedSeq(({lo, 4, 6} \cap lo..hi) \cup {hi})
           /\ \A i \in 1..(Len(seq) - 1) : seq[i] < seq[i + 1]
           /\ \A i \in DOMAIN seq : lo <= seq[i] /\ seq[i] <= hi
           /\ seq # << >> /\ seq[Len(seq)] = hi

\* a step that creates the session of a REPRO_BUILDER worker
C15_ReproLaunch ==
    role = REPRO /\ \E w \in WorkerIds : ~session[w] /\ session'[w]

\* C15: no REPRO_BUILDER session is created once a candidate has passed
\* validation in a wave; a further repro wave is launched only when no
\* candidate of the preceding wave passed.
C15_StopGrowingOnPass ==
    [][C15_ReproLaunch =>
          /\ ~history.any_passed
          /\ \A i \in DOMAIN accepted_candidates : ~accepted_candidates[i].validation.passed]_vars

\* a candidate of the first of two repro waves passed and the run went on
\* to minimization with that one wave launched
C15_Witness ==
    /\ pc = "minimize" /\ Len(WaveSizes) = 2
    /\ history.any_passed
    /\ history.waves = << [role |-> REPRO, count |-> WaveSizes[1]] >>

\* the hypotheses parsed from the outputs of the triage wave just waited for
C16_Parsed ==
    UNION { files[TRIAGER][w].hyps :
               w \in { x \in WaveWorkers : files[TRIAGER][x].kind = "hyps" } }

\* the step of the triage loop that ranks the parsed outputs of a wave
\* and stops or grows
C16_Decides ==
    /\ pc = "triage_rank" /\ pc' \in {"launch", "triage_done"}
    /\ LET rk == RankHypotheses(C16_Parsed)
           grow == /\ Count < cfg.max_workers
                   /\ (rk = << >> \/ TriageDisagreementHigh(rk))
       IN /\ pc' = "launch" <=> grow
          /\ pc' = "launch" =>
                role' = TRIAGER /\ wave' = wave + 1 /\ WaveSizes[wave'] > Count
          /\ pc' = "triage_done" => ranked' = rk

\* C16: after the wait of a triage wave of size n a larger triage wave is
\* launched iff n < max_workers and the ranked list is empty or in high
\* disagreement; otherwise the phase ends with the ranked list of that
\* wave, which is what the decision takes its top hypotheses from.
C16_TriageGrowth ==
    /\ [][pc = "triage_rank" /\ pc' \in {"launch", "triage_done"} => C16_Decides]_vars
    /\ [][pc = "triage_done" => ranked' = ranked]_vars
    /\ [](decision.status = "ok" =>
             LET top == TopHypotheses(ranked, TopLimit)
             IN decision.top = [i \in DOMAIN top |-> top[i].mech])

\* the first triage wave, of one worker, was in high disagreement, the
\* second wave was launched, and the phase ended with its ranked list
C16_Witness ==
    /\ pc = "triage_done" /\ wave = 2
    /\ history.waves = << [role |-> TRIAGER, count |-> 1], [role |-> TRIAGER, count |-> 2] >>
    /\ files[TRIAGER][1].kind = "hyps" /\ Cardinality(files[TRIAGER][1].hyps) = 2
    /\ Len(ranked) >= 2

C18_Without(seq, k) == SubSeq(seq, 1, k - 1) \o SubSeq(seq, k + 1, Len(seq))

\* C18: for a deterministic oracle that holds on the input, the lines
\* returned by _ddmin satisfy the oracle and removing any single one of
\* them gives the empty list or a list the oracle rejects; for the oracle
\* that holds iff one designated line is present the result is that line.
C18_OneMinimal ==
    call.fn = "_ddmin" /\ call.pc = "returned" /\ call.deterministic /\ call.lines # << >> =>
        /\ call.result \in call.accepted
           \/ (call.essential # 0 /\ \E k \in DOMAIN call.result : call.result[k] = call.essential)
        /\ \A k \in DOMAIN call.result :
              LET t == C18_Without(call.result, k)
              IN \/ t = << >>
                 \/ call.essential = 0 /\ t \in call.rejected
                 \/ call.essential # 0 /\ \A j \in DOMAIN t : t[j] # call.essential
        /\ call.essential # 0 => call.result = << call.essential >>

\* five different lines were reduced to three of them, under an oracle
\* that accepts no list of two of these
C18_Witness ==
    /\ call.fn = "_ddmin" /\ call.pc = "returned" /\ call.deterministic
    /\ call.essential = 0
    /\ call.lines = << 1, 2, 3, 4, 5 >>
    /\ Len(call.result) = 3

\* the lines of a script of five different lines were reduced to its
\* fourth, the designated one
C18_WitnessDesignated ==
    /\ call.fn = "_ddmin" /\ call.pc = "returned"
    /\ call.lines = << 1, 2, 3, 4, 5 >> /\ call.essential = 4
    /\ call.result = << 4 >>

\* r is l with some elements left out
C19_SubSeq(r, l) ==
    \E f \in [DOMAIN r -> DOMAIN l] :
        /\ \A a, b \in DOMAIN r : a < b => f[a] < f[b]
        /\ \A a \in DOMAIN r : r[a] = l[f[a]]

\* C19: whatever the oracle answers, _ddmin works on and returns an
\* order-preserving subsequence of its input, non-empty when the input is;
\* a single line is returned without an oracle call and an empty list as
\* the empty list.
C19_SubsequenceNonEmpty ==
    call.fn = "_ddmin" /\ call.pc # "entry" =>
        /\ C19_SubSeq(call.current, call.lines)
        /\ call.lines # << >> => call.current # << >>
        /\ call.pc = "returned" =>
              /\ C19_SubSeq(call.result, call.lines)
              /\ call.lines # << >> => call.result # << >>
              /\ call.lines = << >> => call.result = << >> /\ call.oracle_calls = 0
              /\ Len(call.lines) = 1 => call.result = call.lines /\ call.oracle_calls = 0

\* an oracle that changed its answer on a list: four lines reduced to two
C19_Witness ==
    /\ call.fn = "_ddmin" /\ call.pc = "returned" /\ ~call.deterministic
    /\ call.lines = << 1, 2, 3, 4 >>
    /\ call.result = << 2, 4 >>

\* a single line returned as it is
C19_WitnessSingle ==
    /\ call.fn = "_ddmin" /\ call.pc = "returned"
    /\ call.lines = << 1 >> /\ call.result = << 1 >> /\ call.oracle_calls = 0

\* the step of Manager.run that minimizes the chosen candidate
C20_Minimized ==
    pc = "minimize" /\ pc' = "launch" =>
        /\ history'.revalidation = "passed" =>
              /\ minimized'.script = "minimized" /\ minimized'.cid = best.cid
              /\ minimized'.validation.passed
              /\ minimized'.validation.total_runs = MinimizeRuns
        /\ history'.revalidation = "failed" => minimized' = best /\ best.script = "original"

\* C20: after minimization selected_candidate.json and minimal_repro.<ext>
\* hold the minimized script when its re-validation passed, and otherwise
\* the chosen candidate as it was, with its original script and its passed
\* validation; the triage prompts embed the script of the selected
\* candidate.
C20_FallbackToOriginal ==
    /\ [][C20_Minimized]_vars
    /\ [](minimized # NoCand =>
             /\ history.revalidation \in {"passed", "failed"}
             /\ minimized.validation.passed
             /\ minimal_repro = [cid |-> minimized.cid, script |-> minimized.script]
             /\ TRIAGER \in history.created => history.prompt = minimal_repro)

\* the re-validation of the reduced script failed and a triage worker was
\* launched with the original script of the chosen candidate
C20_Witness ==
    /\ history.revalidation = "failed"
    /\ TRIAGER \in history.created
    /\ history.prompt = [cid |-> minimized.cid, script |-> "original"]
    /\ minimal_repro.script = "original"

\* an evidence row that is valid as stated: the file exists under the
\* repository root, the line is within the file, the snippet is not empty
\* and is contained in the line
C21_ValidRow(ev) ==
    /\ ev.file \in RepoFiles
    /\ ev.line \in 1..2
    /\ ev.snippet = "x" /\ ev.line = 1

\* C21: rank_hypotheses returns exactly the input hypotheses with a
\* non-empty mechanism and at least one valid evidence row, each with its
\* evidence reduced to the valid rows.
C21_RankFilters ==
    call.fn = "rank_hypotheses" /\ call.pc # "called" =>
        LET keep == { h \in call.hypotheses :
                        h.mech # "" /\ \E k \in DOMAIN h.evidence : C21_ValidRow(h.evidence[k]) }
        IN /\ { call.result[i].hid : i \in DOMAIN call.result } = { h.hid : h \in keep }
           /\ Len(call.result) = Cardinality(keep)
           /\ \A i \in DOMAIN call.result : \A h \in call.hypotheses :
                 h.hid = call.result[i].hid =>
                     call.result[i].evidence = SelectSeq(h.evidence, C21_ValidRow)

\* the same with the rows that _evidence_valid accepts
C21_AsCoded ==
    call.fn = "rank_hypotheses" /\ call.pc # "called" =>
        LET keep == { h \in call.hypotheses :
                        h.mech # "" /\ \E k \in DOMAIN h.evidence : EvidenceValid(h.evidence[k]) }
        IN /\ { call.result[i].hid : i \in DOMAIN call.result } = { h.hid : h \in keep }
           /\ Len(call.result) = Cardinality(keep)
           /\ \A i \in DOMAIN call.result : \A h \in call.hypotheses :
                 h.hid = call.result[i].hid =>
                     call.result[i].evidence = SelectSeq(h.evidence, EvidenceValid)

\* a comes no later than b: higher score, or the same score and higher
\* confidence, or the same of both and an id that is not larger
C22_NoLater(a, b) ==
    \/ a.score > b.score
    \/ a.score = b.score /\ a.conf > b.conf
    \/ a.score = b.score /\ a.conf = b.conf /\ a.hid <= b.hid

C23_Step ==
    /\ pc = "validate" /\ files[REPRO][idx] = Garbage =>
          pc' \in {"validate", "choose", "killed"}
    /\ pc = "triage_rank" /\ (\E w \in WaveWorkers : files[TRIAGER][w] = Garbage) =>
          pc' \in {"triage_rank", "launch", "triage_done", "killed"}

C23_UnparsableSkipped == [][C23_Step]_vars

\* the part of C23 about the repro phase
C23_ReproStep ==
    pc = "validate" /\ files[REPRO][idx] = Garbage =>
        /\ pc' \in {"validate", "choose", "killed"}
        /\ idx' # idx =>
              /\ "parse" \in decision_json'.diagnostics
              /\ accepted_candidates' = IF idx = 1 THEN << >> ELSE accepted_candidates

C23_ReproSkipped == [][C23_ReproStep]_vars

\* C24: a multiplexer call that exits non-zero while a wave is supervised
\* makes at most that worker failed or timeout: the supervision step goes
\* on to the next watch or to the end of the round, it does not end the run.
C24_Step ==
    pc = "tick" =>
        /\ pc' \in {"tick", "round_end", "killed"}
        /\ \A w \in WaveWorkers \ {idx} : CurrentSessions'[w] = CurrentSessions[w]

C24_SupervisionGoesOn == [][C24_Step]_vars

\* C25: a subprocess that exceeds its timeout (a setup command, an oracle
\* run, the semantic reduction, the setup of the validation environment)
\* counts as a failed operation: the step that runs it does not end the run.
C25_Step ==
    pc \in {"validation_env", "validate", "minimize"} => pc' # "crashed"

C25_TimeoutIsFailure == [][C25_Step]_vars

\* C26: once a watch is marked failed, every later tick leaves it
\* unchanged and runs no tmux command, and the status of its worker stays
\* failed until the wait for the wave returns.
C26_Step ==
    prog = "orchestrator" =>
    \A w \in WaveWorkers :
        watch[w].failed /\ pc \in {"tick", "round_end"} =>
            /\ pc' \in {"tick", "round_end"} =>
                  watch'[w] = watch[w] /\ sends'[w] = sends[w] /\ restarts'[w] = restarts[w]
            /\ pc = "tick" /\ idx = w /\ idx' # idx => tick_calls' = << >>
            /\ ~session'[w]
            /\ CurrentSessions[w] = "failed" /\ CurrentSessions'[w] = "failed"

C26_FailedStays == [][C26_Step]_vars

\* the second worker of the wave is still supervised and the first, failed
\* in an earlier round, has just been ticked again
C26_Witness ==
    /\ pc = "tick" /\ idx = 2 /\ Count = 2
    /\ watch[1].failed /\ tick_calls = << >>
    /\ CurrentSessions[1] = "failed"
    /\ session[2]

\* a worker of the repro wave just waited for ended failed or timeout and
\* the candidate chosen is the one of another worker
C27_Lost(b) ==
    /\ prog = "orchestrator" /\ role = REPRO
    /\ b # NoCand
    /\ \E w \in WaveWorkers \ {b.worker} : worker_sessions[w] \in {"failed", "timeout"}

\* C27: a run in whose repro wave a worker ended failed or timeout while
\* the candidate of another worker passed goes on to minimization and from
\* there to triage; its decision is not needs-human.
C27_Step ==
    /\ pc = "choose" /\ C27_Lost(ChooseBestCandidate(accepted_candidates)) =>
          pc' \in {"choose", "minimize", "killed"}
    /\ pc = "minimize" /\ C27_Lost(best) =>
          /\ pc' \in {"minimize", "launch", "killed"}
          /\ pc' = "launch" => role' = TRIAGER
          /\ decision'.status # "needs-human"

C27_LostWorkerStillOk == [][C27_Step]_vars

\* the part of C27 before the minimization: the wave with a lost worker and
\* a passed candidate is the last repro wave, and minimization follows
C27_ChooseStep ==
    pc = "choose" /\ C27_Lost(ChooseBestCandidate(accepted_candidates)) =>
        /\ pc' \in {"choose", "minimize", "killed"}
        /\ decision'.status # "needs-human"

C27_ProceedsToMinimize == [][C27_ChooseStep]_vars

\* a run that selected a candidate never decides needs-human
C27_NeverNeedsHuman ==
    prog = "orchestrator" /\ minimized # NoCand =>
        decision.status # "needs-human" /\ decision_json.status # "needs-human"

\* the minimization begins after a wave with a lost worker
C27_Reached ==
    pc = "minimize" /\ C27_Lost(best)

\* C28: once run_done.json is written, no file of the run directory is
\* written again, neither by the manager nor by a stop request.
C28_Step ==
    run_done_json.exists =>
        /\ run_done_json' = run_done_json
        /\ decision_json' = decision_json
        /\ final_md' = final_md
        /\ sessions_json' = sessions_json
        /\ minimal_repro' = minimal_repro

C28_NoWriteAfterRunDone == [][C28_Step]_vars

\* the part of C28 about the stop requests: a stop request leaves an
\* existing run_done.json as it is and writes no other file
C28_StopStep ==
    stops' # stops =>
        /\ run_done_json.exists => run_done_json' = run_done_json
        /\ decision_json' = decision_json /\ final_md' = final_md
        /\ sessions_json' = sessions_json /\ minimal_repro' = minimal_repro

C28_StopWritesOnlyWhenAbsent == [][C28_StopStep]_vars

\* C29: whenever a worker session created by the manager exists,
\* sessions.json lists that worker.
C29_SessionsListed ==
    prog = "orchestrator" =>
        \A w \in WorkerIds : session[w] => w \in sessions_json.workers

\* the part of C29 that holds while the manager waits for a wave and reads
\* its outputs: every worker of the wave is listed
C29_ListedWhileWaiting ==
    prog = "orchestrator"
    /\ pc \in {"wait_start", "tick", "round_end", "validate", "choose", "triage_rank"} =>
        \A w \in WaveWorkers : w \in sessions_json.workers

\* C30: a reader of issue.json, sessions.json or decision.json that runs
\* concurrently with the writer obtains a complete document, the previous
\* or the new version, never an empty or partly written file.
C30_ReaderGetsDocument ==
    call.fn = "write_json" /\ call.read.done =>
        /\ call.read.text \in Documents
        /\ call.read.text[1].version \in {call.version - 1, call.version, call.version + 1}

\* the part of C30 that holds: a read between two writes gets the document
\* written last
C30_ReadBetweenWrites ==
    call.fn = "write_json" /\ call.read.done /\ call.read.at = "idle" =>
        /\ call.read.text \in Documents
        /\ call.read.text[1].version <= call.version

\* the end of a polling round of _wait_for_workers: the wait returns when
\* no session is active or the wave timeout has elapsed, and sleeps and
\* polls again otherwise
C31_RoundEndStep ==
    prog = "orchestrator" /\ pc = "round_end" /\ pc' \notin {"round_end", "killed"} =>
        IF active = {} \/ now - start >= cfg.timeout_sec
        THEN pc' = "write_sessions_waited"
        ELSE pc' = "tick" /\ now' = now + cfg.poll_interval_sec

\* C31: _wait_for_workers always terminates by returning: a step of its
\* loop over the watches stays in the wait, and the round ends with the
\* return when no session is active or timeout_sec has elapsed.
C31_Step ==
    /\ C31_RoundEndStep
    /\ prog = "orchestrator" /\ pc = "tick" => pc' \in {"tick", "round_end", "killed"}

C31_WaitReturns == [][C31_Step]_vars

\* the part of C31 about the end of a round
C31_ReturnsAtRoundEnd == [][C31_RoundEndStep]_vars

\* the loop is bounded: a round is polled only while the wave timeout has
\* not elapsed at the end of the round before it
C31_RoundsBounded ==
    prog = "orchestrator" /\ pc \in {"tick", "round_end"} =>
        now - start < cfg.timeout_sec + cfg.poll_interval_sec

\* C32: a decision with status ok has at least one top hypothesis.
C32_OkHasHypotheses ==
    prog = "orchestrator" /\ decision.status = "ok" => decision.top # << >>

\* the part of C32 that holds: the top hypotheses of an ok decision are the
\* mechanisms of the first TopLimit ranked hypotheses of the last triage wave
C32_TopOfRanked ==
    prog = "orchestrator" /\ decision.status = "ok" =>
        /\ Len(decision.top) = Min(TopLimit, Len(ranked))
        /\ \A i \in DOMAIN decision.top : decision.top[i] = ranked[i].mech

\* the tmux commands by which a tick acts on a session
C33_Acting == {"send-keys", "kill-session", "new-session"}

\* C33: a tick sends text to, kills or creates a session only if the
\* session exists, the captured digest equals last_digest and at least
\* stall_timeout has elapsed since last_change_epoch; otherwise it changes
\* at most last_digest and last_change_epoch and leaves the flags and the
\* session untouched; the first tick of a watch does not intervene.
C33_TickFrame ==
    call.fn = "tick" /\ call.pc = "returned" =>
        LET st == call.state
            r == call.result
            acts == \E i \in DOMAIN r.calls : r.calls[i] \in C33_Acting
            stalled == /\ call.alive /\ call.digest = st.last_digest
                       /\ st.last_change_epoch # 0
                       /\ call.now_epoch - st.last_change_epoch >= call.stall_timeout_sec
        IN /\ acts \/ r.op # "none" => stalled /\ ~st.failed
           /\ ~stalled =>
                 /\ ~acts /\ r.op = "none"
                 /\ r.state.stalled_once = st.stalled_once
                 /\ r.state.restarted_once = st.restarted_once
                 /\ r.state.failed = st.failed
           /\ st = FreshWatch => ~acts /\ r.op = "none"
           /\ ~call.alive \/ st.failed => r.state = st

\* the first tick of a watch, at a clock reading beyond the stall timeout,
\* of a session whose pane is still empty: last_change_epoch is set
C33_Witness ==
    /\ call.fn = "tick" /\ call.pc = "returned"
    /\ call.state = FreshWatch /\ call.alive /\ call.digest = 0
    /\ call.now_epoch > call.stall_timeout_sec
    /\ call.result.state.last_change_epoch = call.now_epoch
    /\ call.result.calls = << "ls", "capture-pane" >>

\* a tick of a stalled watch that intervenes
C33_WitnessStalled ==
    /\ call.fn = "tick" /\ call.pc = "returned"
    /\ call.result.op = "restart"

\* C34: a session is killed and recreated only on a stall in which the
\* pane digest is still the one captured when the nudge was sent, and a
\* worker is marked failed only on a stall with the digest captured at the
\* restart.
C34_NoChangeSinceNudge ==
    call.fn = "watch" =>
        /\ call.op = "restart" => call.digest = call.nudge_digest
        /\ call.op = "fail" => call.digest = call.restart_digest

\* as coded: the restart follows a nudge and the failure follows a restart,
\* each on a stall of the digest last seen, whatever the pane showed at the
\* earlier step
C34_EscalationOrder ==
    call.fn = "watch" =>
        /\ call.op = "restart" => call.nudge_digest # -1 /\ call.state.stalled_once
        /\ call.op = "fail" => call.restart_digest # -1 /\ call.state.restarted_once
        /\ call.op # "none" => call.digest = call.state.last_digest

\* the escalation runs to the end on a pane that never changes
C34_Escalated ==
    /\ call.fn = "watch" /\ call.op = "fail"
    /\ call.digest = call.nudge_digest /\ call.digest = call.restart_digest

\* the step by which _wait_for_workers returns
C35_Returns == prog = "orchestrator" /\ pc = "round_end" /\ pc' = "write_sessions_waited"

\* the wave timeout fires in this step
C35_TimeoutFires == active # {} /\ now - start >= cfg.timeout_sec

C35_Step ==
    C35_Returns =>
        \A w \in WaveWorkers :
            /\ CurrentSessions'[w] \in {"finished", "failed", "timeout"}
            /\ CurrentSessions'[w] = "failed" <=> watch[w].failed
            /\ CurrentSessions'[w] = "timeout" <=> C35_TimeoutFires /\ session[w]
            /\ CurrentSessions'[w] = "finished" <=>
                  ~watch[w].failed /\ ~(C35_TimeoutFires /\ session[w])

\* C35: when _wait_for_workers returns every worker of the wave has one
\* status among finished, failed and timeout: failed iff its watch
\* exhausted the escalation, timeout iff its session was alive when the
\* wave timeout fired, finished otherwise.
C35_StatusOnReturn == [][C35_Step]_vars

C35_CodedStep ==
    C35_Returns =>
        \A w \in WaveWorkers :
            /\ CurrentSessions'[w] \in {"finished", "failed", "timeout"}
            /\ CurrentSessions'[w] = "failed" <=> watch[w].failed
            /\ CurrentSessions'[w] = "timeout" <=> C35_TimeoutFires /\ w \in active
            /\ w \in active => ~watch[w].failed

\* as coded: timeout goes to the workers whose session existed when their
\* tick of the last round looked, alive or not when the timeout fires
C35_StatusAsCoded == [][C35_CodedStep]_vars

C36_KeepStep ==
    prog = "orchestrator" /\ "parse" \in decision_json.diagnostics =>
        "parse" \in decision_json'.diagnostics

\* C36: a diagnostic recorded in decision.json when a candidate is skipped
\* stays there in every step of the run, the write of the final
\* decision.json by _finalize included.
C36_DiagnosticKept == [][C36_KeepStep]_vars

C36_CodedStep ==
    /\ prog = "orchestrator" /\ pc # "finalize_decision" /\ "parse" \in decision_json.diagnostics =>
          "parse" \in decision_json'.diagnostics
    /\ prog = "orchestrator" /\ pc = "finalize_decision" /\ pc' = "finalize_final_md" =>
          decision_json'.diagnostics = decision.diagnostics /\ "parse" \notin decision.diagnostics

\* as coded: the diagnostic stays in decision.json until _finalize replaces
\* the file by the RunDecision, whose diagnostics never hold it
C36_DiagnosticUntilFinalize == [][C36_CodedStep]_vars

\* C37: every candidate or hypothesis output the manager evaluates after
\* a wave was written by a worker in that same wave.
C37_WrittenInSameWave ==
    call.fn = "outputs" =>
        \A t \in call.taken : t.written = t.wave /\ t.by = "worker"

\* as coded: in the first wave the outputs evaluated are of that wave, and
\* an output is never evaluated in a wave earlier than its last write
C37_FirstWaveFresh ==
    call.fn = "outputs" =>
        \A t \in call.taken :
            /\ t.written \in 1..t.wave
            /\ t.wave = 1 => t.written = 1 /\ t.by = "worker"
            /\ t.by = "manager" => call.role = REPRO /\ t.written < t.wave

\* a later wave in which the worker wrote its output anew
C37_FreshInLaterWave ==
    /\ call.fn = "outputs"
    /\ \E t \in call.taken : t.wave = 2 /\ t.written = 2 /\ t.by = "worker" /\ t.worker = 1

C38_Step ==
    prog = "orchestrator" /\ stops' = stops + 1 => \A w \in WorkerIds : ~session'[w]

\* C38: when a stop request (stop_run or cmd_stop) returns, no worker
\* session of the run is alive, also when the request comes while the
\* manager launches the workers of a wave.
C38_NoWorkerAfterStop == [][C38_Step]_vars

C38_ListedStep ==
    prog = "orchestrator" /\ stops' = stops + 1 =>
        /\ \A w \in sessions_json.workers : ~session'[w]
        /\ \A w \in WorkerIds \ sessions_json.workers : session'[w] = session[w]
        /\ pc \notin {"launch", "write_sessions_launched"} => \A w \in WorkerIds : ~session'[w]

\* as coded: the stop request kills the workers sessions.json names and no
\* other; outside the launch of a wave these are all the sessions
C38_ListedWorkersKilled == [][C38_ListedStep]_vars

\* C39: with the stall timeout max(45, timeout_sec // 3), for every allowed
\* timeout_sec and poll interval a worker whose session stays alive and
\* whose pane never changes is nudged, restarted and marked failed; the
\* wave timeout does not come first.
C39_EscalationCompletes ==
    call.fn = "escalation" /\ call.status # "launched" =>
        call.status = "failed" /\ call.ops = << "send", "restart", "fail" >>

\* polling rounds from one step of the escalation to the next
C39_RoundsPerStall ==
    (call.stall_timeout_sec + call.poll_interval_sec - 1) \div call.poll_interval_sec

\* as coded: the escalation completes exactly when the round before the
\* third stall still begins before the wave timeout
C39_CompletesWhenRoundsFit ==
    call.fn = "escalation" /\ call.status # "launched" =>
        (call.status = "failed" <=>
            (3 * C39_RoundsPerStall - 1) * call.poll_interval_sec < call.timeout_sec)

\* the defaults 300 and 5 complete the escalation in the last round
C39_DefaultsComplete ==
    /\ call.fn = "escalation" /\ call.timeout_sec = 300 /\ call.poll_interval_sec = 5
    /\ call.status = "failed" /\ call.ops = << "send", "restart", "fail" >>

\* one step of _ddmin inside its while loop: the granularity is between 2
\* and the length of the current list; a pass of the for loop goes through
\* the chunks once; a new iteration of the while loop begins with a shorter
\* list or with a larger granularity
C40_Step ==
    call.fn = "_ddmin" =>
        /\ call.pc = "for" => 2 <= call.n /\ call.n <= Len(call.current) /\ call.i <= call.n
        /\ call.pc = "while" /\ Len(call.current) >= 2 => call.n <= Len(call.current)
        /\ call.pc = "for" /\ call'.pc = "for" =>
              call'.i = call.i + 1 /\ call'.n = call.n /\ call'.current = call.current
        /\ call.pc = "for" /\ call'.pc = "while" =>
              \/ Len(call'.current) < Len(call.current)
              \/ call'.current = call.current /\ call'.n > call.n
        /\ call.pc = "while" => call'.pc \in {"for", "returned"} /\ call'.current = call.current
        /\ call.pc = "returned" => call' = call

====
